---------------------------- MODULE Spec2Model ----------------------------
(***************************************************************************)
(* Model of globalPlugins/typingEchoRate.py: the typed-character handler   *)
(* that replaces NVDA's speakTypedCharacters (word buffer, typed-word and  *)
(* typed-character echo under protection and the echo modes) and the rate  *)
(* resolver (_computeTypingRateOffset, _computeSpellingRateOffset) over    *)
(* the add-on's configuration section.                                     *)
(*                                                                         *)
(* Characters are Unicode code points.  Strings are sequences of code      *)
(* points, so that "".join, str.lower and the substring test are computed. *)
(***************************************************************************)
EXTENDS Integers, Sequences, FiniteSets, TLC

VARIABLES
    \* ---- typed-character handler ------------------------------------
    curWordChars,          \* _curWordChars: the word buffer
    typingIsProtected,     \* what api.isTypingProtected() returns
    applyToWords,          \* conf["applyToWords"]
    speakTypedWords,       \* config.conf["keyboard"]["speakTypedWords"]
    speakTypedCharacters,  \* config.conf["keyboard"]["speakTypedCharacters"]
    focusEditable,         \* what _isFocusEditable() returns
    out,                   \* speech calls made by the last step, in order
    logged,                \* log.io lines written by the last step
    lastCh,                \* ch of the handler call of the last step, or NoCall
    keys                   \* history: the word-constituent and backspace
                           \* keystrokes of the word being typed, each with
                           \* the protection flag it was typed under; after a
                           \* boundary keystroke, the keystrokes of the word it
                           \* ended and the boundary itself, until the next step

VARIABLES
    \* ---- rate resolver and speech dispatch ---------------------------
    conf,                  \* config.conf["typingEchoRate"]
    synthName,             \* what _getActiveSynthName() returns
    defaultRate,           \* what _getDefaultSpeechRate() returns
    spoken,                \* the sequence the last step gave to speech.speak
    lastSpeak              \* "typing", "spelling": the dispatch of the last
                           \* step; "none" when it dispatched nothing

VARIABLES
    \* ---- settings panel ----------------------------------------------
    panel,                 \* the values of the panel's check boxes and sliders
    saves                  \* history: how many times onSave ran

VARIABLES
    \* ---- the replaced host functions ---------------------------------
    ns,                    \* what the names speakTypedCharacters and
                           \* speakSpelling are bound to in speech.speech (mod)
                           \* and in the speech package (pkg)
    orig,                  \* _ORIG_speakTypedCharacters_mod/_pkg and
                           \* _ORIG_speakSpelling_mod/_pkg
    handled                \* how the handler call of the last step went: where
                           \* an exception was raised, the argument, the
                           \* log.error lines, the calls of a saved original,
                           \* and whether an exception left the handler

keyVars == <<curWordChars, typingIsProtected, applyToWords, speakTypedWords,
             speakTypedCharacters, focusEditable, out, logged, lastCh, keys>>

rateVars == <<conf, synthName, defaultRate, spoken, lastSpeak>>

panelVars == <<panel, saves>>

patchVars == <<ns, orig, handled>>

vars == <<keyVars, rateVars, panelVars, patchVars>>

-----------------------------------------------------------------------------
(* Bounds *)

\* Longest run of word-constituent and backspace keystrokes between two
\* boundary characters.
MaxKeys == 3

\* Most runs of onSave in one behaviour.
MaxSaves == 2

-----------------------------------------------------------------------------
(* Characters *)

PROTECTED_CHAR == 42          \* "*"

FIRST_NONCONTROL_CHAR == 32   \* " "

BACKSPACE == 8                \* "\b"

DELETE == 127                 \* "\u007f"

\* The keystrokes the model types: "a" (Ll) and "2" (Nd), backspace, delete,
\* space (Zs) and carriage return (Cc).
WordChars == {97, 50}

BoundaryChars == {32, 13}

TypedChars == WordChars \cup {BACKSPACE, DELETE} \cup BoundaryChars

\* unicodedata.category(ch)[0] for the characters above and the mask.
MajorCategory(ch) ==
    CASE ch = 97 -> "L"
      [] ch = 50 -> "N"
      [] ch = 32 -> "Z"
      [] ch = 42 -> "P"
      [] ch \in {8, 13, 127} -> "C"

\* The value of lastCh after a step that called no handler: no character.
NoCall == CHOOSE n \in {-1, 0} : n \notin TypedChars

\* TypingEcho
OFF == "OFF"
EDIT_CONTROLS == "EDIT_CONTROLS"
ALWAYS == "ALWAYS"
TypingEcho == {OFF, EDIT_CONTROLS, ALWAYS}

\* A handler call that raised nothing, and a step without a handler call.
NoHandled ==
    [raisedAt |-> "none", arg |-> << >>, errorLog |-> << >>,
     fallback |-> << >>, escaped |-> FALSE]

-----------------------------------------------------------------------------
(* The typed-character handler *)

\* Mutant: the protection flag is ignored.
realChar_unmasked(ch) == ch

\* realChar = PROTECTED_CHAR if typingIsProtected else ch
realChar(ch) == IF typingIsProtected THEN PROTECTED_CHAR ELSE ch

\* Mutant: the first entry is removed instead of the last.
DelLast_first(s) == IF Len(s) = 0 THEN s ELSE SubSeq(s, 2, Len(s))

\* del _curWordChars[-1:]
DelLast(s) == IF Len(s) = 0 THEN s ELSE SubSeq(s, 1, Len(s) - 1)

\* Mutant: the typed word takes the typing-rate path whatever applyToWords is.
SpeakTypedWord_alwaysRate(typedWord) ==
    IF (~typingIsProtected) /\ speakTypedWords # OFF
         /\ (speakTypedWords = ALWAYS
             \/ (speakTypedWords = EDIT_CONTROLS /\ focusEditable))
    THEN << [call |-> "_speakTextWithTypingRate", text |-> typedWord] >>
    ELSE << >>

\* Mutant: without applyToWords the typed word is spoken under protection too.
SpeakTypedWord_hostUnguarded(typedWord) ==
    IF (~typingIsProtected) /\ applyToWords
    THEN IF speakTypedWords # OFF
              /\ (speakTypedWords = ALWAYS
                  \/ (speakTypedWords = EDIT_CONTROLS /\ focusEditable))
         THEN << [call |-> "_speakTextWithTypingRate", text |-> typedWord] >>
         ELSE << >>
    ELSE IF speakTypedWords # OFF
              /\ (speakTypedWords = ALWAYS
                  \/ (speakTypedWords = EDIT_CONTROLS /\ focusEditable))
         THEN << [call |-> "speakText", text |-> typedWord] >>
         ELSE << >>

\* Mutant: EDIT_CONTROLS echoes the typed word whatever the focus is.
SpeakTypedWord_anyFocus(typedWord) ==
    IF (~typingIsProtected) /\ applyToWords
    THEN IF speakTypedWords # OFF
         THEN << [call |-> "_speakTextWithTypingRate", text |-> typedWord] >>
         ELSE << >>
    ELSE IF speakTypedWords # OFF /\ ~typingIsProtected
         THEN << [call |-> "speakText", text |-> typedWord] >>
         ELSE << >>

\* The typed-word branch, run for a boundary character that finds the buffer
\* non-empty: the speech calls made for typedWord.
SpeakTypedWord(typedWord) ==
    IF (~typingIsProtected) /\ applyToWords
    THEN IF speakTypedWords # OFF
              /\ (speakTypedWords = ALWAYS
                  \/ (speakTypedWords = EDIT_CONTROLS /\ focusEditable))
         THEN << [call |-> "_speakTextWithTypingRate", text |-> typedWord] >>
         ELSE << >>
    ELSE IF speakTypedWords # OFF /\ ~typingIsProtected
              /\ (speakTypedWords = ALWAYS
                  \/ (speakTypedWords = EDIT_CONTROLS /\ focusEditable))
         THEN << [call |-> "speakText", text |-> typedWord] >>
         ELSE << >>

\* Mutant: control characters are echoed too.
SpeakTypedChar_controlToo(ch) ==
    IF speakTypedCharacters # OFF
         /\ (speakTypedCharacters = ALWAYS
             \/ (speakTypedCharacters = EDIT_CONTROLS /\ focusEditable))
    THEN << [call |-> "_speakSpellingWithTypingRate", text |-> <<realChar(ch)>>] >>
    ELSE << >>

\* The typed-character echo that ends the handler.
SpeakTypedChar(ch) ==
    IF speakTypedCharacters # OFF /\ ch >= FIRST_NONCONTROL_CHAR
         /\ (speakTypedCharacters = ALWAYS
             \/ (speakTypedCharacters = EDIT_CONTROLS /\ focusEditable))
    THEN << [call |-> "_speakSpellingWithTypingRate", text |-> <<realChar(ch)>>] >>
    ELSE << >>

\* Mutant: a backspace is appended to the buffer.
BufferAfter_backspaceKept(ch) ==
    IF MajorCategory(ch) \in {"L", "M", "N"} THEN Append(curWordChars, realChar(ch))
    ELSE IF ch = BACKSPACE THEN Append(curWordChars, ch)
    ELSE IF ch = DELETE THEN curWordChars
    ELSE IF Len(curWordChars) > 0 THEN << >>
    ELSE curWordChars

\* Mutant: the boundary character leaves the buffer as it is.
BufferAfter_noClear(ch) ==
    IF MajorCategory(ch) \in {"L", "M", "N"} THEN Append(curWordChars, realChar(ch))
    ELSE IF ch = BACKSPACE THEN DelLast(curWordChars)
    ELSE curWordChars

\* The buffer after the handler ran for ch.
BufferAfter(ch) ==
    IF MajorCategory(ch) \in {"L", "M", "N"} THEN Append(curWordChars, realChar(ch))
    ELSE IF ch = BACKSPACE THEN DelLast(curWordChars)
    ELSE IF ch = DELETE THEN curWordChars
    ELSE IF Len(curWordChars) > 0 THEN << >>
    ELSE curWordChars

\* Mutant: the delete character does not return early.
RequestsFor_deleteFallsThrough(ch) ==
    IF MajorCategory(ch) \in {"L", "M", "N"} THEN SpeakTypedChar(ch)
    ELSE IF ch = BACKSPACE THEN SpeakTypedChar(ch)
    ELSE IF Len(curWordChars) > 0
         THEN SpeakTypedWord(curWordChars) \o SpeakTypedChar(ch)
    ELSE SpeakTypedChar(ch)

\* Mutant: the typed-word branch is taken whatever the buffer holds, and for
\* a word-constituent character too.
RequestsFor_wordAlways(ch) ==
    IF ch = BACKSPACE THEN SpeakTypedChar(ch)
    ELSE IF ch = DELETE THEN << >>
    ELSE SpeakTypedWord(curWordChars) \o SpeakTypedChar(ch)

\* The speech calls the handler makes for ch, in order.
RequestsFor(ch) ==
    IF MajorCategory(ch) \in {"L", "M", "N"} THEN SpeakTypedChar(ch)
    ELSE IF ch = BACKSPACE THEN SpeakTypedChar(ch)
    ELSE IF ch = DELETE THEN << >>
    ELSE IF Len(curWordChars) > 0
         THEN SpeakTypedWord(curWordChars) \o SpeakTypedChar(ch)
    ELSE SpeakTypedChar(ch)

\* The log.io lines the handler writes for ch when the IO level is enabled.
LoggedFor(ch, ioEnabled) ==
    IF MajorCategory(ch) \notin {"L", "M", "N"} /\ ch # BACKSPACE /\ ch # DELETE
         /\ Len(curWordChars) > 0 /\ ioEnabled
    THEN << curWordChars >>
    ELSE << >>

\* The history ends with the boundary keystroke that closed the word.
Closed ==
    /\ Len(keys) > 0
    /\ MajorCategory(keys[Len(keys)].ch) \notin {"L", "M", "N"}
    /\ keys[Len(keys)].ch # BACKSPACE

\* The history the next step starts from.
KeysBefore == IF Closed THEN << >> ELSE keys

\* The history after the handler ran for ch (a delete is not recorded).
KeysAfter(ch) ==
    IF ch = DELETE THEN KeysBefore
    ELSE Append(KeysBefore, [ch |-> ch, prot |-> typingIsProtected])

\* _patched_speakTypedCharacters(ch)
patched_speakTypedCharacters(ch) ==
    /\ (MajorCategory(ch) \in {"L", "M", "N"} \/ ch = BACKSPACE)
          => Len(KeysBefore) < MaxKeys
    /\ \E ioEnabled \in BOOLEAN :
         logged' = LoggedFor(ch, ioEnabled)
    /\ curWordChars' = BufferAfter(ch)
    /\ out' = RequestsFor(ch)
    /\ lastCh' = ch
    /\ keys' = KeysAfter(ch)
    /\ UNCHANGED <<typingIsProtected, applyToWords, speakTypedWords,
                   speakTypedCharacters, focusEditable>>
    /\ UNCHANGED <<rateVars, panelVars, ns, orig>> /\ handled' = NoHandled

TypeChar == \E ch \in TypedChars : patched_speakTypedCharacters(ch)

\* The host and the user between two keystrokes: nothing is spoken.
Quiet == out' = << >> /\ logged' = << >> /\ lastCh' = NoCall
           /\ keys' = KeysBefore /\ UNCHANGED curWordChars
           /\ UNCHANGED <<rateVars, panelVars, ns, orig>> /\ handled' = NoHandled

SetProtected ==
    /\ typingIsProtected' = ~typingIsProtected
    /\ Quiet
    /\ UNCHANGED <<applyToWords, speakTypedWords, speakTypedCharacters, focusEditable>>

SetApplyToWords ==
    /\ applyToWords' = ~applyToWords
    /\ Quiet
    /\ UNCHANGED <<typingIsProtected, speakTypedWords, speakTypedCharacters, focusEditable>>

SetSpeakTypedWords ==
    /\ \E m \in TypingEcho \ {speakTypedWords} : speakTypedWords' = m
    /\ Quiet
    /\ UNCHANGED <<typingIsProtected, applyToWords, speakTypedCharacters, focusEditable>>

SetSpeakTypedCharacters ==
    /\ \E m \in TypingEcho \ {speakTypedCharacters} : speakTypedCharacters' = m
    /\ Quiet
    /\ UNCHANGED <<typingIsProtected, applyToWords, speakTypedWords, focusEditable>>

FocusChange ==
    /\ focusEditable' = ~focusEditable
    /\ Quiet
    /\ UNCHANGED <<typingIsProtected, applyToWords, speakTypedWords, speakTypedCharacters>>

-----------------------------------------------------------------------------
(* Installing and removing the replacements *)

\* What a name of the speech namespaces is bound to: the host's function or
\* the replacement; Missing for a name the namespace does not have.  None is
\* the value of a saved original that is not set.
Host == "host"
Patched == "patched"
Missing == "missing"
None == "None"

\* getattr(namespace, name, None)
GetAttr(bound) == IF bound = Missing THEN None ELSE bound

\* Mutant: the replacements are installed whatever is saved already.
patchSpeech_reentrant ==
    /\ orig' = [typedMod |-> ns.modTyped,
                typedPkg |-> GetAttr(ns.pkgTyped),
                spellMod |-> GetAttr(ns.modSpelling),
                spellPkg |-> GetAttr(ns.pkgSpelling)]
    /\ ns' = [modTyped |-> Patched,
              pkgTyped |-> IF GetAttr(ns.pkgTyped) # None
                           THEN Patched ELSE ns.pkgTyped,
              modSpelling |-> IF GetAttr(ns.modSpelling) # None
                              THEN Patched ELSE ns.modSpelling,
              pkgSpelling |-> IF GetAttr(ns.pkgSpelling) # None
                              THEN Patched ELSE ns.pkgSpelling]
    /\ handled' = NoHandled
    /\ out' = << >> /\ logged' = << >> /\ lastCh' = NoCall /\ keys' = KeysBefore
    /\ UNCHANGED <<curWordChars, typingIsProtected, applyToWords, speakTypedWords,
                   speakTypedCharacters, focusEditable>>
    /\ UNCHANGED <<rateVars, panelVars>>

\* GlobalPlugin._patchSpeech
patchSpeech ==
    /\ IF orig.typedMod # None \/ orig.typedPkg # None
            \/ orig.spellMod # None \/ orig.spellPkg # None
       THEN UNCHANGED <<ns, orig>>
       ELSE /\ orig' = [typedMod |-> ns.modTyped,
                        typedPkg |-> GetAttr(ns.pkgTyped),
                        spellMod |-> GetAttr(ns.modSpelling),
                        spellPkg |-> GetAttr(ns.pkgSpelling)]
            /\ ns' = [modTyped |-> Patched,
                      pkgTyped |-> IF GetAttr(ns.pkgTyped) # None
                                   THEN Patched ELSE ns.pkgTyped,
                      modSpelling |-> IF GetAttr(ns.modSpelling) # None
                                      THEN Patched ELSE ns.modSpelling,
                      pkgSpelling |-> IF GetAttr(ns.pkgSpelling) # None
                                      THEN Patched ELSE ns.pkgSpelling]
    /\ handled' = NoHandled
    /\ out' = << >> /\ logged' = << >> /\ lastCh' = NoCall /\ keys' = KeysBefore
    /\ UNCHANGED <<curWordChars, typingIsProtected, applyToWords, speakTypedWords,
                   speakTypedCharacters, focusEditable>>
    /\ UNCHANGED <<rateVars, panelVars>>

\* GlobalPlugin._unpatchSpeech
unpatchSpeech ==
    /\ ns' = [modTyped |-> IF orig.typedMod # None
                           THEN orig.typedMod ELSE ns.modTyped,
              pkgTyped |-> IF orig.typedPkg # None
                           THEN orig.typedPkg ELSE ns.pkgTyped,
              modSpelling |-> IF orig.spellMod # None
                              THEN orig.spellMod ELSE ns.modSpelling,
              pkgSpelling |-> IF orig.spellPkg # None
                              THEN orig.spellPkg ELSE ns.pkgSpelling]
    /\ orig' = [typedMod |-> None, typedPkg |-> None,
                spellMod |-> None, spellPkg |-> None]
    /\ handled' = NoHandled
    /\ out' = << >> /\ logged' = << >> /\ lastCh' = NoCall /\ keys' = KeysBefore
    /\ UNCHANGED <<curWordChars, typingIsProtected, applyToWords, speakTypedWords,
                   speakTypedCharacters, focusEditable>>
    /\ UNCHANGED <<rateVars, panelVars>>

-----------------------------------------------------------------------------
(* The handlers when an exception is raised *)

\* Mutant: an exception of the saved original is not caught.
ExceptPass_reraise(raises) == raises

\* try: return orig(...) / except Exception: pass -- whether an exception
\* leaves the handler when the call of the saved original raises or not
ExceptPass(raises) == FALSE

\* _ORIG_..._pkg or _ORIG_..._mod
SavedOrig(pkg, mod) == IF pkg # None THEN pkg ELSE mod

\* The except branch of both handlers: the error is logged and the saved
\* original, if there is one, is called with the arguments of the handler.
Fallback(point, fn, arg, saved, origRaises) ==
    [raisedAt |-> point,
     arg |-> arg,
     errorLog |-> << fn >>,
     fallback |-> IF saved # None
                  THEN << [fn |-> fn, orig |-> saved, arg |-> arg] >>
                  ELSE << >>,
     escaped |-> IF saved # None THEN ExceptPass(origRaises) ELSE FALSE]

\* Where _patched_speakTypedCharacters can raise: reading the protection
\* flag (392), classifying ch (396), reading the typed-word settings
\* (410-411), speaking the typed word (416, 424), reading the
\* typed-character setting (426) and speaking the character (431).
TypedFaultPoints ==
    {"isTypingProtected", "category", "wordEcho", "speakWord", "charEcho",
     "speakChar"}

\* ch takes the typed-word branch.
EndsWord(ch) ==
    /\ MajorCategory(ch) \notin {"L", "M", "N"}
    /\ ch # BACKSPACE /\ ch # DELETE
    /\ Len(curWordChars) > 0

\* The handler run for ch gets as far as point.
Reaches(ch, point) ==
    CASE point \in {"isTypingProtected", "category"} -> TRUE
      [] point = "wordEcho" -> EndsWord(ch)
      [] point = "speakWord" -> EndsWord(ch) /\ SpeakTypedWord(curWordChars) # << >>
      [] point = "charEcho" -> ch # DELETE
      [] point = "speakChar" -> ch # DELETE /\ SpeakTypedChar(ch) # << >>

\* _patched_speakTypedCharacters(ch) when an exception is raised at point
patched_speakTypedCharacters_raising(ch, point, origRaises) ==
    /\ (MajorCategory(ch) \in {"L", "M", "N"} \/ ch = BACKSPACE)
          => Len(KeysBefore) < MaxKeys
    /\ Reaches(ch, point)
    /\ curWordChars' = IF point \in {"isTypingProtected", "category"}
                       THEN curWordChars ELSE BufferAfter(ch)
    /\ \E ioEnabled \in BOOLEAN :
         logged' = IF point \in {"isTypingProtected", "category"}
                   THEN << >> ELSE LoggedFor(ch, ioEnabled)
    /\ out' = IF point \in {"charEcho", "speakChar"} /\ EndsWord(ch)
              THEN SpeakTypedWord(curWordChars) ELSE << >>
    /\ lastCh' = ch
    /\ keys' = IF point \in {"isTypingProtected", "category"}
               THEN KeysBefore ELSE KeysAfter(ch)
    /\ handled' = Fallback(point, "speakTypedCharacters", << ch >>,
                           SavedOrig(orig.typedPkg, orig.typedMod), origRaises)
    /\ UNCHANGED <<typingIsProtected, applyToWords, speakTypedWords,
                   speakTypedCharacters, focusEditable>>
    /\ UNCHANGED <<rateVars, panelVars, ns, orig>>

TypeCharRaising ==
    \E ch \in TypedChars, point \in TypedFaultPoints, origRaises \in BOOLEAN :
      patched_speakTypedCharacters_raising(ch, point, origRaises)

\* Where _patched_speakSpelling can raise: resolving the offset and speaking.
SpellFaultPoints == {"computeOffset", "speak"}

SpellTexts == { << 97 >>, << 97, 50 >> }

\* _patched_speakSpelling(text) when an exception is raised at point
patched_speakSpelling_raising(text, point, origRaises) ==
    /\ handled' = Fallback(point, "speakSpelling", text,
                           SavedOrig(orig.spellPkg, orig.spellMod), origRaises)
    /\ spoken' = << >> /\ lastSpeak' = "none"
    /\ out' = << >> /\ logged' = << >> /\ lastCh' = NoCall /\ keys' = KeysBefore
    /\ UNCHANGED <<curWordChars, typingIsProtected, applyToWords, speakTypedWords,
                   speakTypedCharacters, focusEditable>>
    /\ UNCHANGED <<conf, synthName, defaultRate, panelVars, ns, orig>>

SpellRaising ==
    \E text \in SpellTexts, point \in SpellFaultPoints, origRaises \in BOOLEAN :
      patched_speakSpelling_raising(text, point, origRaises)

-----------------------------------------------------------------------------
(* Synthesizer names *)

NoSynth == << >>

Espeak == << "e", "s", "p", "e", "a", "k" >>

OneCore == << "o", "n", "e", "C", "o", "r", "e" >>

UpperOneCore == << "x", "O", "N", "E", "C", "O", "R", "E" >>

SynthNames == {NoSynth, Espeak, OneCore, UpperOneCore}

\* str.lower, for the characters of SynthNames
LowerChar(c) ==
    CASE c = "C" -> "c"
      [] c = "E" -> "e"
      [] c = "N" -> "n"
      [] c = "O" -> "o"
      [] c = "R" -> "r"
      [] OTHER -> c

Lower(name) == [i \in 1..Len(name) |-> LowerChar(name[i])]

\* sub in s
Contains(s, sub) ==
    \E i \in 1..(Len(s) - Len(sub) + 1) : SubSeq(s, i, i + Len(sub) - 1) = sub

\* Mutant: the name is not lowered before the test.
isOneCoreSynthName_caseSensitive(name) ==
    Contains(name, << "o", "n", "e", "c", "o", "r", "e" >>)
      \/ name = << "o", "n", "e", "c", "o", "r", "e" >>

\* _isOneCoreSynthName(name)
isOneCoreSynthName(name) ==
    LET n == Lower(name)
    IN Contains(n, << "o", "n", "e", "c", "o", "r", "e" >>)
         \/ n = << "o", "n", "e", "c", "o", "r", "e" >>

-----------------------------------------------------------------------------
(* The configuration section *)

\* The value of a boolean key, or Absent for a key the section does not hold.
True == "True"
False == "False"
Absent == "absent"

\* A stored JSON text, as json.loads reads it: a text it rejects (the
\* registered default "" is one), a value that is no object (an array), or an
\* object with its members.
InvalidJson == [kind |-> "invalid", members |-> << >>]

JsonArray == [kind |-> "array", members |-> << >>]

\* The values of the members: a number, a string spelling the integer v, a
\* string spelling no integer, and null (v is not read for the last two).
JsonInt(n) == [t |-> "int", v |-> n]

JsonNumeral(n) == [t |-> "numeral", v |-> n]

JsonWord == [t |-> "word", v |-> 0]

JsonNull == [t |-> "null", v |-> 0]

\* "rateOffset" not in conf: the section holds no key of that name.
NoOffset == [t |-> "absent", v |-> 0]

JsonMembers(ms) == [kind |-> "object", members |-> ms]

\* An object whose members are the integers of m.
JsonObject(m) == JsonMembers([k \in DOMAIN m |-> JsonInt(m[k])])

\* int(v) succeeds
Convertible(x) == x.t \in {"int", "numeral"}

\* int(v)
IntOf(x) == x.v

\* The body shared by _loadBoostMap, _loadSpellBoostMap, _loadTypingRatesMap and
\* _loadSpellingRatesMap: json.loads, isinstance(data, dict), int(v) per member.
LoadJsonMap(raw) ==
    IF raw.kind = "object"
    THEN [k \in {x \in DOMAIN raw.members : Convertible(raw.members[x])}
            |-> IntOf(raw.members[k])]
    ELSE << >>

loadBoostMap(c) == LoadJsonMap(c.oneCoreBoostJson)

loadSpellBoostMap(c) == LoadJsonMap(c.oneCoreSpellBoostJson)

loadTypingRatesMap(c) == LoadJsonMap(c.typingRatesJson)

loadSpellingRatesMap(c) == LoadJsonMap(c.spellingRatesJson)

\* _getBoostForSynth(conf, synthName)
getBoostForSynth(c, name) ==
    LET m == loadBoostMap(c)
    IN IF name # << >> /\ name \in DOMAIN m THEN m[name] ELSE c.oneCoreBoost

\* _getSpellBoostForSynth(conf, synthName)
getSpellBoostForSynth(c, name) ==
    LET m == loadSpellBoostMap(c)
    IN IF name # << >> /\ name \in DOMAIN m THEN m[name] ELSE c.oneCoreSpellBoost

\* Mutant: the map is read for the empty name too.
getTypingRateForSynth_noBypass(c, name) ==
    LET m == loadTypingRatesMap(c)
    IN IF name \in DOMAIN m THEN m[name] ELSE c.typingRate

\* _getTypingRateForSynth(conf, synthName)
getTypingRateForSynth(c, name) ==
    LET m == loadTypingRatesMap(c)
    IN IF name # << >> /\ name \in DOMAIN m THEN m[name] ELSE c.typingRate

\* _getSpellingRateForSynth(conf, synthName)
getSpellingRateForSynth(c, name) ==
    LET m == loadSpellingRatesMap(c)
    IN IF name # << >> /\ name \in DOMAIN m THEN m[name] ELSE c.spellingRate

\* Mutant: only the lower end is clamped.
Clamp_lowerOnly(x) == IF x < 0 THEN 0 ELSE x

\* if x < 0: x = 0 / elif x > 100: x = 100
Clamp(x) == IF x < 0 THEN 0 ELSE IF x > 100 THEN 100 ELSE x

\* conf.get("enabled", True)
GetEnabled(c) == IF c.enabled = Absent THEN TRUE ELSE c.enabled = True

\* Mutant: typing consults the general toggle alone.
GetEnabledSpelling_general(c) == GetEnabled(c)

\* conf.get("enabledSpelling", conf.get("enabled", True))
GetEnabledSpelling(c) ==
    IF c.enabledSpelling = Absent THEN GetEnabled(c) ELSE c.enabledSpelling = True

\* Mutant: a negative rate is clamped to 0 instead of following the default.
computeTypingRateOffset_noFollow(c, name, d) ==
    IF ~GetEnabledSpelling(c) THEN 0
    ELSE LET offset == Clamp(getTypingRateForSynth(c, name)) - d
         IN IF isOneCoreSynthName(name)
            THEN offset + Clamp(getBoostForSynth(c, name))
            ELSE offset

\* typingRate of _computeTypingRateOffset when it is subtracted from: the
\* stored rate, the default rate d in its place when negative, clamped
typingRateUsed(c, name, d) ==
    LET typingRate == getTypingRateForSynth(c, name)
    IN Clamp(IF typingRate < 0 THEN d ELSE typingRate)

\* Mutant: the boost is added as stored.
boostUsed_raw(c, name) == getBoostForSynth(c, name)

\* boost of _computeTypingRateOffset when it is added: the stored boost, clamped
boostUsed(c, name) == Clamp(getBoostForSynth(c, name))

\* Mutant: the spelling resolver reads the typing rate.
spellingRateUsed_typing(c, name, d) ==
    LET spellingRate == getTypingRateForSynth(c, name)
    IN Clamp(IF spellingRate < 0 THEN d ELSE spellingRate)

\* spellingRate of _computeSpellingRateOffset when it is subtracted from
spellingRateUsed(c, name, d) ==
    LET spellingRate == getSpellingRateForSynth(c, name)
    IN Clamp(IF spellingRate < 0 THEN d ELSE spellingRate)

\* boost of _computeSpellingRateOffset when it is added
spellBoostUsed(c, name) == Clamp(getSpellBoostForSynth(c, name))

\* _computeTypingRateOffset(), for the section c, the active synthesizer name
\* and its default rate d
computeTypingRateOffset(c, name, d) ==
    IF ~GetEnabledSpelling(c) THEN 0
    ELSE LET offset == typingRateUsed(c, name, d) - d
         IN IF isOneCoreSynthName(name)
            THEN offset + boostUsed(c, name)
            ELSE offset

\* _computeSpellingRateOffset()
computeSpellingRateOffset(c, name, d) ==
    IF ~GetEnabled(c) THEN 0
    ELSE LET offset == spellingRateUsed(c, name, d) - d
         IN IF isOneCoreSynthName(name)
            THEN offset + spellBoostUsed(c, name)
            ELSE offset

-----------------------------------------------------------------------------
(* Speech dispatch *)

\* RateCommand(offset=offset); RateCommand() is RateCommand(offset=0)
RateCommand(offset) == [cmd |-> "RateCommand", offset |-> offset]

\* One item of a prepared speech sequence.
SpeechItem == [cmd |-> "speech", offset |-> 0]

\* Mutant: the closing RateCommand() is left out.
Wrapped_noReset(offset, seq) ==
    IF offset = 0 THEN seq ELSE << RateCommand(offset) >> \o seq

\* [RateCommand(offset=offset), *seq, RateCommand()], or seq when offset is 0
Wrapped(offset, seq) ==
    IF offset = 0 THEN seq
    ELSE << RateCommand(offset) >> \o seq \o << RateCommand(0) >>

\* _speakWithTypingRate(seq)
speakWithTypingRate(seq) ==
    /\ spoken' = Wrapped(computeTypingRateOffset(conf, synthName, defaultRate), seq)
    /\ lastSpeak' = "typing"
    /\ UNCHANGED <<conf, synthName, defaultRate>>
    /\ UNCHANGED <<keyVars, panelVars, ns, orig>> /\ handled' = NoHandled

\* _speakSpellingWithSpellingRate(text), seq being getSpellingSpeech(text)
speakSpellingWithSpellingRate(seq) ==
    /\ spoken' = Wrapped(computeSpellingRateOffset(conf, synthName, defaultRate), seq)
    /\ lastSpeak' = "spelling"
    /\ UNCHANGED <<conf, synthName, defaultRate>>
    /\ UNCHANGED <<keyVars, panelVars, ns, orig>> /\ handled' = NoHandled

SpeakTyping == speakWithTypingRate(<< SpeechItem >>)

SpeakSpelling == speakSpellingWithSpellingRate(<< SpeechItem >>)

\* The user switches the synthesizer.
SwitchSynth ==
    /\ \E n \in SynthNames \ {synthName} : synthName' = n
    /\ spoken' = << >> /\ lastSpeak' = "none"
    /\ UNCHANGED <<conf, defaultRate>>
    /\ UNCHANGED <<keyVars, panelVars, ns, orig>> /\ handled' = NoHandled

DefaultRates == {0, 50, 100}

\* The user changes the speech rate of the synthesizer.
SetDefaultRate ==
    /\ \E d \in DefaultRates \ {defaultRate} : defaultRate' = d
    /\ spoken' = << >> /\ lastSpeak' = "none"
    /\ UNCHANGED <<conf, synthName>>
    /\ UNCHANGED <<keyVars, panelVars, ns, orig>> /\ handled' = NoHandled

-----------------------------------------------------------------------------
(* Saving the settings *)

\* Mutant: the text json.dumps gives is replaced by the empty text.
saveTypingRatesMap_empty(c, m) == [c EXCEPT !.typingRatesJson = InvalidJson]

\* _saveTypingRatesMap(conf, m): json.dumps of a dict of str to int
saveTypingRatesMap(c, m) == [c EXCEPT !.typingRatesJson = JsonObject(m)]

\* _saveSpellingRatesMap(conf, m)
saveSpellingRatesMap(c, m) == [c EXCEPT !.spellingRatesJson = JsonObject(m)]

\* _saveBoostMap(conf, m)
saveBoostMap(c, m) == [c EXCEPT !.oneCoreBoostJson = JsonObject(m)]

\* _saveSpellBoostMap(conf, m)
saveSpellBoostMap(c, m) == [c EXCEPT !.oneCoreSpellBoostJson = JsonObject(m)]

\* if val < 0: val = -1 / elif val > 100: val = 100
SliderRate(val) == IF val < 0 THEN -1 ELSE IF val > 100 THEN 100 ELSE val

\* bool(ctrl.GetValue()) as the section stores it
Stored(b) == IF b THEN True ELSE False

\* Mutant: the assignment leaves no other entry in the mapping.
Assign_only(m, name, v) == (name :> v)

\* m[name] = v
Assign(m, name, v) == (name :> v) @@ m

\* The section onSave leaves, for the section c, the active synthesizer name
\* and the control values p.
onSaveConf(c, name, p) ==
    LET c1 == [c EXCEPT !.enabled = Stored(p.enable),
                        !.enabledSpelling = Stored(p.enableSpell)]
        val == SliderRate(p.rate)
        c2 == IF name # << >>
              THEN saveTypingRatesMap(c1, Assign(loadTypingRatesMap(c1), name, val))
              ELSE [c1 EXCEPT !.typingRate = val]
        b == Clamp(p.boost)
        c3 == IF ~isOneCoreSynthName(name) THEN c2
              ELSE IF name # << >>
              THEN saveBoostMap(c2, Assign(loadBoostMap(c2), name, b))
              ELSE [c2 EXCEPT !.oneCoreBoost = b]
        sval == SliderRate(p.spellRate)
        c4 == IF name # << >>
              THEN saveSpellingRatesMap(c3,
                     Assign(loadSpellingRatesMap(c3), name, sval))
              ELSE [c3 EXCEPT !.spellingRate = sval]
        sb == Clamp(p.spellBoost)
    IN IF ~isOneCoreSynthName(name) THEN c4
       ELSE IF name # << >>
       THEN saveSpellBoostMap(c4, Assign(loadSpellBoostMap(c4), name, sb))
       ELSE [c4 EXCEPT !.oneCoreSpellBoost = sb]

\* TypingEchoRateSettingsPanel.onSave
onSave ==
    /\ saves < MaxSaves
    /\ conf' = onSaveConf(conf, synthName, panel)
    /\ applyToWords' = panel.applyWords
    /\ saves' = saves + 1
    /\ spoken' = << >> /\ lastSpeak' = "none"
    /\ UNCHANGED <<synthName, defaultRate, panel>>
    /\ UNCHANGED <<curWordChars, typingIsProtected, speakTypedWords,
                   speakTypedCharacters, focusEditable, out, logged, lastCh, keys>>
    /\ UNCHANGED patchVars

\* Control values: the sliders run from 0 to 100.
PanelSamples ==
    { [enable |-> TRUE, enableSpell |-> TRUE, applyWords |-> FALSE,
       rate |-> 40, boost |-> 0, spellRate |-> 100, spellBoost |-> 10],
      [enable |-> FALSE, enableSpell |-> TRUE, applyWords |-> TRUE,
       rate |-> 100, boost |-> 30, spellRate |-> 0, spellBoost |-> 0],
      [enable |-> TRUE, enableSpell |-> FALSE, applyWords |-> FALSE,
       rate |-> 0, boost |-> 100, spellRate |-> 40, spellBoost |-> 100] }

\* The user moves the controls of the panel.
SetControls ==
    /\ \E p \in PanelSamples \ {panel} : panel' = p
    /\ spoken' = << >> /\ lastSpeak' = "none"
    /\ UNCHANGED <<conf, synthName, defaultRate, saves>>
    /\ UNCHANGED <<keyVars, patchVars>>

-----------------------------------------------------------------------------
(* Migrating the stored settings of earlier versions *)

\* Mutant: the entry of the active synthesizer is written whether there is
\* one already or not.
migrateConf_overwrite(c, name, d, delOk) ==
    LET m == loadTypingRatesMap(c)
        fromOffset == c.rateOffset # NoOffset /\ name # << >>
        offset == IF Convertible(c.rateOffset) THEN IntOf(c.rateOffset) ELSE 0
        m1 == IF fromOffset THEN Assign(m, name, Clamp(d + offset)) ELSE m
        c1 == IF ~fromOffset THEN c
              ELSE IF delOk
              THEN [saveTypingRatesMap(c, m1) EXCEPT !.rateOffset = NoOffset]
              ELSE saveTypingRatesMap(c, m1)
        legacyAbs == c1.typingRate
    IN IF name # << >> /\ legacyAbs >= 0
       THEN saveTypingRatesMap(c1,
              Assign(m1, name, IF legacyAbs > 100 THEN 100 ELSE legacyAbs))
       ELSE c1

\* The section _migrateOldConfigIfNeeded leaves, for the section c, the
\* active synthesizer name and the default speech rate d; delOk tells
\* whether del conf["rateOffset"] raised nothing.
migrateConf(c, name, d, delOk) ==
    LET m == loadTypingRatesMap(c)
        fromOffset == c.rateOffset # NoOffset /\ name # << >>
                        /\ name \notin DOMAIN m
        offset == IF Convertible(c.rateOffset) THEN IntOf(c.rateOffset) ELSE 0
        m1 == IF fromOffset THEN Assign(m, name, Clamp(d + offset)) ELSE m
        c1 == IF ~fromOffset THEN c
              ELSE IF delOk
              THEN [saveTypingRatesMap(c, m1) EXCEPT !.rateOffset = NoOffset]
              ELSE saveTypingRatesMap(c, m1)
        legacyAbs == c1.typingRate
    IN IF name # << >> /\ name \notin DOMAIN m1 /\ legacyAbs >= 0
       THEN saveTypingRatesMap(c1,
              Assign(m1, name, IF legacyAbs > 100 THEN 100 ELSE legacyAbs))
       ELSE c1

\* GlobalPlugin._migrateOldConfigIfNeeded
migrateOldConfigIfNeeded ==
    /\ \E delOk \in BOOLEAN :
         conf' = migrateConf(conf, synthName, defaultRate, delOk)
    /\ spoken' = << >> /\ lastSpeak' = "none"
    /\ UNCHANGED <<synthName, defaultRate>>
    /\ UNCHANGED <<keyVars, panelVars, patchVars>>

-----------------------------------------------------------------------------
(* Configurations *)

\* The section as _initConfigSpec registers it.
DefaultConf ==
    [enabled |-> True, enabledSpelling |-> True,
     typingRatesJson |-> InvalidJson, typingRate |-> -1,
     oneCoreBoostJson |-> InvalidJson, oneCoreBoost |-> 0,
     spellingRatesJson |-> InvalidJson, spellingRate |-> -1,
     oneCoreSpellBoostJson |-> InvalidJson, oneCoreSpellBoost |-> 0,
     rateOffset |-> NoOffset]

Flags == {True, False, Absent}

\* Stored per-synth rates and scalar rates.
RateTexts ==
    { InvalidJson,
      JsonObject(Espeak :> 30),
      JsonObject(OneCore :> 100),
      JsonObject((Espeak :> 0) @@ (OneCore :> 70)),
      JsonObject((NoSynth :> 80) @@ (UpperOneCore :> 20)),
      JsonObject((Espeak :> 150) @@ (OneCore :> -7)),
      JsonMembers((Espeak :> JsonWord) @@ (OneCore :> JsonInt(70))
                    @@ (UpperOneCore :> JsonNumeral(45))) }

RateScalars == {-1, 0, 60, 250}

\* Stored per-synth boosts and scalar boosts.
BoostTexts ==
    { InvalidJson,
      JsonObject(OneCore :> 25),
      JsonObject((Espeak :> 40) @@ (UpperOneCore :> 100)),
      JsonObject((OneCore :> 130) @@ (UpperOneCore :> -20)),
      JsonArray,
      JsonMembers((OneCore :> JsonNull) @@ (UpperOneCore :> JsonInt(35))) }

BoostScalars == {0, 15, 130}

\* The four settings of one purpose: every combination of the stored values,
\* or one of two fixed settings.
RichSettings == RateTexts \X RateScalars \X BoostTexts \X BoostScalars

PoorSettings ==
    { << InvalidJson, -1, InvalidJson, 0 >>,
      << JsonObject((Espeak :> 30) @@ (OneCore :> 70)), 60,
         JsonObject(OneCore :> 25), 15 >> }

\* The sections the resolver is checked on: one purpose takes every
\* combination while the other takes one of the two fixed settings.
ConfSamples ==
    { [enabled |-> e, enabledSpelling |-> es,
       typingRatesJson |-> t[1], typingRate |-> t[2],
       oneCoreBoostJson |-> t[3], oneCoreBoost |-> t[4],
       spellingRatesJson |-> sp[1], spellingRate |-> sp[2],
       oneCoreSpellBoostJson |-> sp[3], oneCoreSpellBoost |-> sp[4],
       rateOffset |-> NoOffset] :
      e \in Flags, es \in Flags,
      <<t, sp>> \in (RichSettings \X PoorSettings) \cup (PoorSettings \X RichSettings) }

\* The sections the settings are saved over: the registered one, one with
\* well-formed maps, and one whose maps are malformed in part.
StoreSamples ==
    { DefaultConf,
      [DefaultConf EXCEPT
         !.typingRatesJson = JsonObject((Espeak :> 30) @@ (OneCore :> 70)),
         !.typingRate = 60,
         !.oneCoreBoostJson = JsonObject(OneCore :> 25),
         !.oneCoreBoost = 15,
         !.spellingRatesJson = JsonObject((NoSynth :> 80) @@ (UpperOneCore :> 20)),
         !.oneCoreSpellBoostJson = JsonObject(UpperOneCore :> 5)],
      [DefaultConf EXCEPT
         !.enabled = Absent, !.enabledSpelling = False,
         !.typingRatesJson =
            JsonMembers((Espeak :> JsonWord) @@ (OneCore :> JsonInt(70))
                          @@ (UpperOneCore :> JsonNumeral(45))),
         !.oneCoreBoostJson = JsonArray,
         !.spellingRatesJson = JsonObject((Espeak :> 150) @@ (OneCore :> -7)),
         !.spellingRate = 250,
         !.oneCoreSpellBoostJson =
            JsonMembers((OneCore :> JsonNull) @@ (UpperOneCore :> JsonInt(35)))] }

\* The rateOffset key of version 0.1.0: missing, a number, the string of a
\* number, or a string that spells no number.
OffsetSamples == {NoOffset, JsonInt(-70), JsonNumeral(20), JsonInt(80), JsonWord}

\* The global typingRate of versions 0.1.1 and 0.1.2.
LegacyRates == {-1, 60, 250}

\* The sections the migration finds.
LegacySamples ==
    { [c EXCEPT !.rateOffset = r, !.typingRate = t] :
        c \in StoreSamples, r \in OffsetSamples, t \in LegacyRates }

-----------------------------------------------------------------------------
(* Specifications *)

InitKeys ==
    /\ curWordChars = << >>
    /\ typingIsProtected = FALSE
    /\ applyToWords = FALSE
    /\ speakTypedWords = OFF
    /\ speakTypedCharacters = ALWAYS
    /\ focusEditable = TRUE
    /\ out = << >>
    /\ logged = << >>
    /\ lastCh = NoCall
    /\ keys = << >>

\* The host's functions in place, none saved.
InitPatch ==
    /\ ns = [modTyped |-> Host, pkgTyped |-> Host,
             modSpelling |-> Host, pkgSpelling |-> Host]
    /\ orig = [typedMod |-> None, typedPkg |-> None,
               spellMod |-> None, spellPkg |-> None]
    /\ handled = NoHandled

\* The panel as makeSettings fills it from the registered section.
InitPanel ==
    /\ panel = [enable |-> TRUE, enableSpell |-> TRUE, applyWords |-> FALSE,
                rate |-> 50, boost |-> 0, spellRate |-> 50, spellBoost |-> 0]
    /\ saves = 0

\* The typed-character handler under the registered configuration.
Init ==
    /\ InitKeys
    /\ InitPatch
    /\ InitPanel
    /\ conf = DefaultConf
    /\ synthName = Espeak
    /\ defaultRate = 50
    /\ spoken = << >>
    /\ lastSpeak = "none"

Next ==
    \/ TypeChar
    \/ SetProtected
    \/ SetApplyToWords
    \/ SetSpeakTypedWords
    \/ SetSpeakTypedCharacters
    \/ FocusChange

Spec == Init /\ [][Next]_vars

\* The rate resolver and the dispatch, for every sampled configuration,
\* synthesizer and default rate.
InitRate ==
    /\ InitKeys
    /\ InitPatch
    /\ InitPanel
    /\ conf \in ConfSamples
    /\ synthName \in SynthNames
    /\ defaultRate \in DefaultRates
    /\ spoken = << >>
    /\ lastSpeak = "none"

NextRate ==
    \/ SpeakTyping
    \/ SpeakSpelling
    \/ SwitchSynth
    \/ SetDefaultRate

SpecRate == InitRate /\ [][NextRate]_vars

\* Saving the settings and resolving over what was saved.
InitStore ==
    /\ InitKeys
    /\ InitPatch
    /\ conf \in StoreSamples
    /\ synthName \in SynthNames
    /\ defaultRate \in DefaultRates
    /\ panel \in PanelSamples
    /\ saves = 0
    /\ spoken = << >>
    /\ lastSpeak = "none"

NextStore ==
    \/ onSave
    \/ SetControls
    \/ SwitchSynth
    \/ SpeakTyping
    \/ SpeakSpelling

SpecStore == InitStore /\ [][NextStore]_vars

\* The migration over what earlier versions stored, run at any time between
\* changes of the synthesizer and of the default rate, and savings.
InitMigrate ==
    /\ InitKeys
    /\ InitPatch
    /\ InitPanel
    /\ conf \in LegacySamples
    /\ synthName \in SynthNames
    /\ defaultRate \in DefaultRates
    /\ spoken = << >>
    /\ lastSpeak = "none"

NextMigrate ==
    \/ migrateOldConfigIfNeeded
    \/ SwitchSynth
    \/ SetDefaultRate
    \/ onSave

SpecMigrate == InitMigrate /\ [][NextMigrate]_vars

\* The speech namespaces the replacements are installed into: every name
\* there, or the package or the spelling names missing.
NsSamples ==
    { [modTyped |-> Host, pkgTyped |-> Host,
       modSpelling |-> Host, pkgSpelling |-> Host],
      [modTyped |-> Host, pkgTyped |-> Missing,
       modSpelling |-> Host, pkgSpelling |-> Missing],
      [modTyped |-> Host, pkgTyped |-> Host,
       modSpelling |-> Missing, pkgSpelling |-> Missing] }

\* The handlers with exceptions raised inside them, installed or not (a
\* caller may hold a handler after it was removed).
InitFault ==
    /\ curWordChars = << >>
    /\ typingIsProtected = FALSE
    /\ applyToWords \in BOOLEAN
    /\ speakTypedWords = ALWAYS
    /\ speakTypedCharacters = ALWAYS
    /\ focusEditable = TRUE
    /\ out = << >> /\ logged = << >> /\ lastCh = NoCall /\ keys = << >>
    /\ InitPanel
    /\ conf = DefaultConf /\ synthName = Espeak /\ defaultRate = 50
    /\ spoken = << >> /\ lastSpeak = "none"
    /\ ns \in NsSamples
    /\ orig = [typedMod |-> None, typedPkg |-> None,
               spellMod |-> None, spellPkg |-> None]
    /\ handled = NoHandled

NextFault ==
    \/ TypeChar
    \/ TypeCharRaising
    \/ SpeakSpelling
    \/ SpellRaising
    \/ patchSpeech
    \/ unpatchSpeech

SpecFault == InitFault /\ [][NextFault]_vars

-----------------------------------------------------------------------------
(* Reading the history and the speech calls *)

IsWordChar(ch) == MajorCategory(ch) \in {"L", "M", "N"}

\* The word-constituent and backspace keystrokes of the history.
Typed == IF Closed THEN SubSeq(keys, 1, Len(keys) - 1) ELSE keys

\* The keystrokes of ks that no later backspace of ks took back.
RECURSIVE Surviving(_)
Surviving(ks) ==
    IF Len(ks) = 0 THEN << >>
    ELSE LET front == Surviving(SubSeq(ks, 1, Len(ks) - 1))
             k == ks[Len(ks)]
         IN IF k.ch = BACKSPACE
            THEN (IF Len(front) = 0 THEN front ELSE SubSeq(front, 1, Len(front) - 1))
            ELSE Append(front, k)

\* The characters of the keystrokes ks.
CharsOf(ks) == [i \in 1..Len(ks) |-> ks[i].ch]

\* ks is word-constituent characters only, all typed unprotected.
PlainLetters(ks) == \A i \in 1..Len(ks) : IsWordChar(ks[i].ch) /\ ~ks[i].prot

WordCalls == {"_speakTextWithTypingRate", "speakText"}

CharCall == "_speakSpellingWithTypingRate"

\* The calls of o made through one of the functions in calls, in order.
CallsIn(o, calls) == SelectSeq(o, LAMBDA r : r.call \in calls)

\* text carries the mask wherever the keystroke behind it was protected.
Masked(text, ks) ==
    /\ Len(text) = Len(ks)
    /\ \A i \in 1..Len(ks) :
         ks[i].prot => (text[i] = PROTECTED_CHAR /\ text[i] # ks[i].ch)

-----------------------------------------------------------------------------
(* C1 *)

\* C1: whatever the protection flag of each keystroke, every buffer entry
\* appended under protection is the mask "*", and no typed-word call,
\* typed-character call or logged typed word holds the real character of a
\* keystroke typed under protection.
C1_ProtectionMasking ==
    /\ (~Closed) => Masked(curWordChars, Surviving(Typed))
    /\ \A j \in 1..Len(out) :
         /\ out[j].call \in WordCalls => Masked(out[j].text, Surviving(Typed))
         /\ (out[j].call = CharCall /\ typingIsProtected)
               => (out[j].text = <<PROTECTED_CHAR>> /\ out[j].text # <<lastCh>>)
    /\ \A j \in 1..Len(logged) : Masked(logged[j], Surviving(Typed))

\* Letters typed under protection were spoken and logged as a word of masks.
C1_Witness ==
    /\ Closed
    /\ \E i \in 1..Len(Typed) : Typed[i].prot /\ IsWordChar(Typed[i].ch)
    /\ \E j \in 1..Len(out) :
         /\ out[j].call \in WordCalls
         /\ Len(out[j].text) >= 2
         /\ \E i \in 1..Len(out[j].text) : out[j].text[i] = PROTECTED_CHAR
    /\ Len(logged) = 1

-----------------------------------------------------------------------------
(* C2 *)

\* The history is unprotected word-constituent characters closed by an
\* unprotected boundary, with applyToWords on and typed words echoed ALWAYS.
C2_Case ==
    /\ Closed /\ lastCh \in BoundaryChars
    /\ PlainLetters(Typed)
    /\ ~typingIsProtected /\ applyToWords /\ speakTypedWords = ALWAYS

\* The boundary spoke exactly the word w, before its own character, and left
\* the buffer empty.
C2_Result ==
    /\ CallsIn(out, WordCalls)
         = << [call |-> "_speakTextWithTypingRate", text |-> CharsOf(Typed)] >>
    /\ out[1].call \in WordCalls
    /\ Len(out) <= 2
    /\ Len(out) = 2
         => out[2] = [call |-> CharCall, text |-> <<lastCh>>]
    /\ curWordChars = << >>

\* C2 as stated: for every finite sequence w of word-constituent characters
\* (the empty one included) typed unprotected from an empty buffer and followed
\* by a boundary, with applyToWords on and typed words echoed ALWAYS, the
\* boundary emits exactly one word request carrying w, before its own character
\* request, and the buffer is empty afterwards.
C2_AsStated == C2_Case => C2_Result

\* C2 amended: the same for every non-empty w.
C2_BufferCorrectness == (C2_Case /\ Len(Typed) > 0) => C2_Result

\* A word of two different characters was spoken, then the space.
C2_Witness ==
    /\ C2_Case
    /\ Len(Typed) >= 2 /\ Typed[1].ch # Typed[2].ch
    /\ Len(out) = 2 /\ out[1].text = CharsOf(Typed)
    /\ out[2].call = CharCall

-----------------------------------------------------------------------------
(* C3 *)

CharEchoOn ==
    speakTypedCharacters = ALWAYS
      \/ (speakTypedCharacters = EDIT_CONTROLS /\ focusEditable)

WordEchoOn ==
    speakTypedWords = ALWAYS \/ (speakTypedWords = EDIT_CONTROLS /\ focusEditable)

\* The last step handled a keystroke of a run of unprotected letters, or the
\* boundary after it, with applyToWords off and typed characters echoed.
C3_Case ==
    /\ lastCh # NoCall /\ lastCh # DELETE
    /\ Len(Typed) > 0 /\ PlainLetters(Typed)
    /\ ~typingIsProtected /\ ~applyToWords /\ CharEchoOn

\* Each letter got exactly one character request.
C3_OnePerLetter ==
    (~Closed) => out = << [call |-> CharCall, text |-> <<lastCh>>] >>

\* C3 as stated: with applyToWords off, letters followed by a boundary give one
\* character request per letter and no word-level speech at all from the
\* handler: it speaks no accumulated word.
C3_AsStated ==
    C3_Case => (C3_OnePerLetter /\ (Closed => CallsIn(out, WordCalls) = << >>))

\* C3 amended: with applyToWords off, each letter gives one character request
\* and the boundary gives no word request on the typing-rate path; the handler
\* still speaks the accumulated word, through the host's speakText, exactly
\* when typed-word echo is ALWAYS, or EDIT_CONTROLS on an editable focus.
C3_NoRateWord ==
    C3_Case =>
      /\ C3_OnePerLetter
      /\ Closed =>
           /\ CallsIn(out, {"_speakTextWithTypingRate"}) = << >>
           /\ CallsIn(out, {"speakText"})
                = IF WordEchoOn
                  THEN << [call |-> "speakText", text |-> CharsOf(Typed)] >>
                  ELSE << >>

\* The boundary spoke a two-letter word through speakText.
C3_Witness ==
    /\ C3_Case /\ Closed /\ Len(Typed) >= 2
    /\ Len(out) >= 1
    /\ out[1] = [call |-> "speakText", text |-> CharsOf(Typed)]

-----------------------------------------------------------------------------
(* C4 *)

Min(a, b) == IF a <= b THEN a ELSE b

NumLetters(ks) == Cardinality({i \in 1..Len(ks) : IsWordChar(ks[i].ch)})

NumBackspaces(ks) == Cardinality({i \in 1..Len(ks) : ks[i].ch = BACKSPACE})

\* ks is unprotected letters followed by backspaces.
LettersThenBackspaces(ks) ==
    /\ \A i \in 1..Len(ks) : IsWordChar(ks[i].ch) => ~ks[i].prot
    /\ \A i, j \in 1..Len(ks) :
         (i < j /\ ks[i].ch = BACKSPACE) => ks[j].ch = BACKSPACE

\* The letters of ks less the last min(k, length) of them.
Remaining(ks) ==
    SubSeq(CharsOf(ks), 1,
           NumLetters(ks) - Min(NumBackspaces(ks), NumLetters(ks)))

\* C4: a backspace removes exactly the most recently appended entry and
\* nothing from an empty buffer; letters followed by k backspaces and a
\* boundary (applyToWords on, typed words ALWAYS, unprotected) give a word
\* request carrying the letters less the last min(k, length), and none when
\* every letter was removed.
C4_DeleteHandling ==
    /\ (~Closed /\ \A i \in 1..Len(Typed) : ~Typed[i].prot)
          => curWordChars = CharsOf(Surviving(Typed))
    /\ (~Closed /\ LettersThenBackspaces(Typed))
          => curWordChars = Remaining(Typed)
    /\ (/\ Closed /\ lastCh \in BoundaryChars
        /\ LettersThenBackspaces(Typed)
        /\ ~typingIsProtected /\ applyToWords /\ speakTypedWords = ALWAYS)
          => CallsIn(out, WordCalls)
               = IF Remaining(Typed) = << >>
                 THEN << >>
                 ELSE << [call |-> "_speakTextWithTypingRate",
                          text |-> Remaining(Typed)] >>

\* Two letters, a backspace and a boundary spoke the first letter alone.
C4_Witness ==
    /\ Closed /\ Len(Typed) = 3
    /\ LettersThenBackspaces(Typed) /\ NumBackspaces(Typed) = 1
    /\ Typed[1].ch # Typed[2].ch
    /\ Len(out) >= 1
    /\ out[1] = [call |-> "_speakTextWithTypingRate", text |-> <<Typed[1].ch>>]

-----------------------------------------------------------------------------
(* C5 *)

\* C5: the handler called with the delete character (0x7F) leaves the buffer
\* as it was and makes no speech call and writes no typed-word line, whatever
\* the protection flag, the echo modes and the focus are.
C5_DeleteDiscarded ==
    [][lastCh' = DELETE =>
         (curWordChars' = curWordChars /\ out' = << >> /\ logged' = << >>)]_vars

\* A delete was handled with a non-empty buffer and typed characters echoed.
C5_Witness ==
    /\ lastCh = DELETE /\ Len(curWordChars) > 0
    /\ speakTypedCharacters = ALWAYS /\ speakTypedWords = ALWAYS /\ applyToWords

-----------------------------------------------------------------------------
(* Reading the stored configuration and the dispatched sequence *)

\* The offset of the rate change the dispatched sequence opens with, 0 when
\* the sequence went out as it was.
OffsetOf(sp) ==
    IF Len(sp) > 0 /\ sp[1].cmd = "RateCommand" THEN sp[1].offset ELSE 0

\* name holds "onecore" somewhere, whatever the case of its letters.
HasMarker(name) ==
    LET marker == << "o", "n", "e", "c", "o", "r", "e" >>
    IN \E i \in 0..(Len(name) - 7) :
         \A j \in 1..7 : LowerChar(name[i + j]) = marker[j]

\* The stored object raw has an entry for the active synthesizer.
HasEntry(raw) ==
    /\ synthName # NoSynth /\ raw.kind = "object"
    /\ synthName \in DOMAIN raw.members
    /\ raw.members[synthName].t \in {"int", "numeral"}

\* The value configured for the active synthesizer: its entry, else the scalar.
Configured(raw, scalar) ==
    IF HasEntry(raw) THEN raw.members[synthName].v ELSE scalar

InRange(x) == IF x < 0 THEN 0 ELSE IF x > 100 THEN 100 ELSE x

\* raw with the entry k: v added (or replaced).
WithEntry(raw, k, v) ==
    [kind |-> "object", members |-> (k :> [t |-> "int", v |-> v]) @@ raw.members]

BothTogglesOn == conf.enabled = True /\ conf.enabledSpelling = True

\* The typing purpose's flag: the spelling toggle if present, else the general.
TypingFlag ==
    IF conf.enabledSpelling # Absent THEN conf.enabledSpelling = True
    ELSE conf.enabled # False

-----------------------------------------------------------------------------
(* C6 *)

\* C6 as stated: with the purpose enabled (typing: the flag of C7; spelling:
\* the 'enabledSpelling' setting of C8) and a synthesizer that is not
\* boost-eligible, a configured rate r in [0,100] (entry or scalar fallback)
\* and a default rate d resolve to the offset r - d, typing and spelling alike.
C6_AsStated ==
    /\ (/\ lastSpeak = "typing" /\ TypingFlag /\ ~HasMarker(synthName)
        /\ Configured(conf.typingRatesJson, conf.typingRate) \in 0..100)
         => OffsetOf(spoken)
              = Configured(conf.typingRatesJson, conf.typingRate) - defaultRate
    /\ (/\ lastSpeak = "spelling" /\ conf.enabledSpelling = True
        /\ ~HasMarker(synthName)
        /\ Configured(conf.spellingRatesJson, conf.spellingRate) \in 0..100)
         => OffsetOf(spoken)
              = Configured(conf.spellingRatesJson, conf.spellingRate) - defaultRate

-----------------------------------------------------------------------------
(* C7 *)

\* C7: the typing offset is 0 whenever the typing purpose's flag is false,
\* whatever the rate, boost, synthesizer and default rate; the flag is the
\* spelling toggle ('enabledSpelling') when present and the general toggle
\* ('enabled') only when the spelling toggle is absent, so that with the flag
\* on the offset is the one resolved with both toggles on.
C7_TypingDisabledIsZero ==
    lastSpeak = "typing" =>
      IF TypingFlag
      THEN OffsetOf(spoken)
             = computeTypingRateOffset(
                 [conf EXCEPT !.enabled = True, !.enabledSpelling = True],
                 synthName, defaultRate)
      ELSE spoken = << SpeechItem >>

\* The spelling toggle is off, the general toggle on, and a typing request that
\* would have carried a rate change went out without one.
C7_Witness ==
    /\ lastSpeak = "typing"
    /\ conf.enabledSpelling = False /\ conf.enabled = True
    /\ synthName = OneCore /\ defaultRate = 50
    /\ Configured(conf.typingRatesJson, conf.typingRate) = 100
    /\ Configured(conf.oneCoreBoostJson, conf.oneCoreBoost) > 0
    /\ spoken = << SpeechItem >>

-----------------------------------------------------------------------------
(* C8 *)

\* C8 as stated: the spelling offset is 0 whenever 'enabledSpelling' is false,
\* whatever the spelling rate and boost, the synthesizer, the default rate and
\* the typing-enable setting are.
C8_AsStated ==
    (lastSpeak = "spelling" /\ conf.enabledSpelling = False)
      => OffsetOf(spoken) = 0

-----------------------------------------------------------------------------
(* C9 *)

\* C9: with the scalar rate -1 and no entry for the active synthesizer the
\* offset is the one resolved with an entry equal to the default rate: 0 for a
\* synthesizer that is not boost-eligible, the clamped boost alone for one that
\* is (the purpose being enabled).
C9_FollowDefault ==
    /\ (/\ lastSpeak = "typing" /\ conf.typingRate = -1
        /\ ~HasEntry(conf.typingRatesJson))
         => /\ ~HasMarker(synthName) => OffsetOf(spoken) = 0
            /\ (HasMarker(synthName) /\ TypingFlag)
                 => OffsetOf(spoken)
                      = InRange(Configured(conf.oneCoreBoostJson, conf.oneCoreBoost))
            /\ synthName # NoSynth
                 => OffsetOf(spoken)
                      = computeTypingRateOffset(
                          [conf EXCEPT !.typingRatesJson =
                             WithEntry(@, synthName, defaultRate)],
                          synthName, defaultRate)
    /\ (/\ lastSpeak = "spelling" /\ conf.spellingRate = -1
        /\ ~HasEntry(conf.spellingRatesJson))
         => /\ ~HasMarker(synthName) => OffsetOf(spoken) = 0
            /\ (HasMarker(synthName) /\ BothTogglesOn)
                 => OffsetOf(spoken)
                      = InRange(Configured(conf.oneCoreSpellBoostJson,
                                           conf.oneCoreSpellBoost))
            /\ synthName # NoSynth
                 => OffsetOf(spoken)
                      = computeSpellingRateOffset(
                          [conf EXCEPT !.spellingRatesJson =
                             WithEntry(@, synthName, defaultRate)],
                          synthName, defaultRate)

\* A typing request on a boost-eligible synthesizer with default rate 100,
\* scalar rate -1 and no entry went out with the boost as its offset.
C9_Witness ==
    /\ lastSpeak = "typing" /\ conf.typingRate = -1
    /\ ~HasEntry(conf.typingRatesJson) /\ conf.typingRatesJson.kind = "object"
    /\ synthName = OneCore /\ defaultRate = 100 /\ TypingFlag
    /\ spoken = << RateCommand(25), SpeechItem, RateCommand(0) >>

-----------------------------------------------------------------------------
(* C10 *)

\* C10: the boost is added only for a synthesizer whose name holds "onecore"
\* in any case: for such a name the offset is the offset without boost plus
\* the clamped boost, and for every other name (the empty one included) the
\* offset is the same for every stored per-synth and scalar boost.
C10_BoostOnlyForMarker ==
    /\ lastSpeak = "typing" =>
         IF HasMarker(synthName)
         THEN TypingFlag =>
                OffsetOf(spoken)
                  = computeTypingRateOffset(
                      [conf EXCEPT !.oneCoreBoostJson = InvalidJson,
                                   !.oneCoreBoost = 0],
                      synthName, defaultRate)
                    + InRange(Configured(conf.oneCoreBoostJson, conf.oneCoreBoost))
         ELSE \A bt \in BoostTexts, bs \in BoostScalars :
                computeTypingRateOffset(
                  [conf EXCEPT !.oneCoreBoostJson = bt, !.oneCoreBoost = bs],
                  synthName, defaultRate) = OffsetOf(spoken)
    /\ lastSpeak = "spelling" =>
         IF HasMarker(synthName)
         THEN BothTogglesOn =>
                OffsetOf(spoken)
                  = computeSpellingRateOffset(
                      [conf EXCEPT !.oneCoreSpellBoostJson = InvalidJson,
                                   !.oneCoreSpellBoost = 0],
                      synthName, defaultRate)
                    + InRange(Configured(conf.oneCoreSpellBoostJson,
                                         conf.oneCoreSpellBoost))
         ELSE \A bt \in BoostTexts, bs \in BoostScalars :
                computeSpellingRateOffset(
                  [conf EXCEPT !.oneCoreSpellBoostJson = bt,
                               !.oneCoreSpellBoost = bs],
                  synthName, defaultRate) = OffsetOf(spoken)

\* A typing request on the upper-case name went out with rate and boost, both
\* from the scalars.
C10_Witness ==
    /\ lastSpeak = "typing" /\ synthName = UpperOneCore /\ TypingFlag
    /\ ~HasEntry(conf.typingRatesJson) /\ ~HasEntry(conf.oneCoreBoostJson)
    /\ conf.typingRate = 60 /\ conf.oneCoreBoost = 15 /\ defaultRate = 50
    /\ spoken = << RateCommand(25), SpeechItem, RateCommand(0) >>

-----------------------------------------------------------------------------
(* C11 *)

\* The stored rate as the resolver uses it: the default rate in the place of a
\* negative one, and never more than 100.
RateInRange(stored) ==
    IF stored < 0 THEN defaultRate ELSE IF stored > 100 THEN 100 ELSE stored

\* C11: whatever integers are stored (values outside [0,100] included) and
\* whatever the default rate in [0,100] is, the rate the resolver subtracts
\* the default rate from is the stored one brought into [0,100], the boost it
\* adds is the stored one brought into [0,100], and the offset it returns is
\* made of these two.
C11_ClampOnRead ==
    /\ (lastSpeak = "typing" /\ TypingFlag) =>
         /\ typingRateUsed(conf, synthName, defaultRate) \in 0..100
         /\ typingRateUsed(conf, synthName, defaultRate)
              = RateInRange(Configured(conf.typingRatesJson, conf.typingRate))
         /\ boostUsed(conf, synthName) \in 0..100
         /\ boostUsed(conf, synthName)
              = InRange(Configured(conf.oneCoreBoostJson, conf.oneCoreBoost))
         /\ OffsetOf(spoken)
              = typingRateUsed(conf, synthName, defaultRate) - defaultRate
                + (IF HasMarker(synthName) THEN boostUsed(conf, synthName) ELSE 0)
    /\ (lastSpeak = "spelling" /\ conf.enabled # False) =>
         /\ spellingRateUsed(conf, synthName, defaultRate) \in 0..100
         /\ spellingRateUsed(conf, synthName, defaultRate)
              = RateInRange(Configured(conf.spellingRatesJson, conf.spellingRate))
         /\ spellBoostUsed(conf, synthName) \in 0..100
         /\ spellBoostUsed(conf, synthName)
              = InRange(Configured(conf.oneCoreSpellBoostJson,
                                   conf.oneCoreSpellBoost))
         /\ OffsetOf(spoken)
              = spellingRateUsed(conf, synthName, defaultRate) - defaultRate
                + (IF HasMarker(synthName)
                   THEN spellBoostUsed(conf, synthName) ELSE 0)

\* A typing request went out with a stored rate of 150 and a stored boost of
\* 130, each used as 100.
C11_Witness ==
    /\ lastSpeak = "typing" /\ TypingFlag
    /\ synthName = OneCore /\ defaultRate = 50
    /\ Configured(conf.typingRatesJson, conf.typingRate) > 100
    /\ Configured(conf.oneCoreBoostJson, conf.oneCoreBoost) = 130
    /\ spoken = << RateCommand(150), SpeechItem, RateCommand(0) >>

-----------------------------------------------------------------------------
(* C12 *)

\* C12: whatever integers are stored and whatever the default rate in [0,100]
\* is, the offset lies in [-100,100] for a synthesizer that is not
\* boost-eligible and in [-100,200] for one that is.
C12_OffsetBounds ==
    LET Range == IF HasMarker(synthName) THEN (-100)..200 ELSE (-100)..100
    IN /\ computeTypingRateOffset(conf, synthName, defaultRate) \in Range
       /\ computeSpellingRateOffset(conf, synthName, defaultRate) \in Range
       /\ lastSpeak # "none" => OffsetOf(spoken) \in Range

\* A spelling request went out with the offset 200: rate and boost at their
\* upper ends over a default rate of 0.
C12_Witness ==
    /\ lastSpeak = "spelling" /\ HasMarker(synthName) /\ defaultRate = 0
    /\ Configured(conf.oneCoreSpellBoostJson, conf.oneCoreSpellBoost) > 100
    /\ spoken = << RateCommand(200), SpeechItem, RateCommand(0) >>

-----------------------------------------------------------------------------
(* C13 *)

\* The section with the four maps emptied and each scalar set to the value
\* configured for the active synthesizer.
Flattened ==
    [conf EXCEPT
       !.typingRatesJson = InvalidJson,
       !.typingRate = Configured(conf.typingRatesJson, conf.typingRate),
       !.oneCoreBoostJson = InvalidJson,
       !.oneCoreBoost = Configured(conf.oneCoreBoostJson, conf.oneCoreBoost),
       !.spellingRatesJson = InvalidJson,
       !.spellingRate = Configured(conf.spellingRatesJson, conf.spellingRate),
       !.oneCoreSpellBoostJson = InvalidJson,
       !.oneCoreSpellBoost =
          Configured(conf.oneCoreSpellBoostJson, conf.oneCoreSpellBoost)]

\* The section with the four maps emptied.
ScalarsOnly ==
    [conf EXCEPT !.typingRatesJson = InvalidJson, !.oneCoreBoostJson = InvalidJson,
                 !.spellingRatesJson = InvalidJson,
                 !.oneCoreSpellBoostJson = InvalidJson]

\* C13: the rate and the boost used are the entry of the active synthesizer
\* in the per-synth map when the map has one and the scalar otherwise (a name
\* missing from a map is no error); for the empty name the maps are not read,
\* even when one has an entry under the empty key.
C13_LookupFallback ==
    /\ getTypingRateForSynth(conf, synthName)
         = Configured(conf.typingRatesJson, conf.typingRate)
    /\ getSpellingRateForSynth(conf, synthName)
         = Configured(conf.spellingRatesJson, conf.spellingRate)
    /\ getBoostForSynth(conf, synthName)
         = Configured(conf.oneCoreBoostJson, conf.oneCoreBoost)
    /\ getSpellBoostForSynth(conf, synthName)
         = Configured(conf.oneCoreSpellBoostJson, conf.oneCoreSpellBoost)
    /\ getTypingRateForSynth(conf, NoSynth) = conf.typingRate
    /\ getSpellingRateForSynth(conf, NoSynth) = conf.spellingRate
    /\ getBoostForSynth(conf, NoSynth) = conf.oneCoreBoost
    /\ getSpellBoostForSynth(conf, NoSynth) = conf.oneCoreSpellBoost
    /\ lastSpeak = "typing" =>
         /\ OffsetOf(spoken)
              = computeTypingRateOffset(Flattened, synthName, defaultRate)
         /\ synthName = NoSynth =>
              OffsetOf(spoken)
                = computeTypingRateOffset(ScalarsOnly, synthName, defaultRate)
    /\ lastSpeak = "spelling" =>
         /\ OffsetOf(spoken)
              = computeSpellingRateOffset(Flattened, synthName, defaultRate)
         /\ synthName = NoSynth =>
              OffsetOf(spoken)
                = computeSpellingRateOffset(ScalarsOnly, synthName, defaultRate)

\* A typing request for the empty name went out at the scalar rate 60 although
\* the map holds the rate 80 under the empty key.
C13_Witness ==
    /\ lastSpeak = "typing" /\ synthName = NoSynth /\ TypingFlag
    /\ conf.typingRatesJson.kind = "object"
    /\ NoSynth \in DOMAIN conf.typingRatesJson.members
    /\ conf.typingRatesJson.members[NoSynth].v = 80
    /\ conf.typingRate = 60 /\ defaultRate = 50
    /\ spoken = << RateCommand(10), SpeechItem, RateCommand(0) >>

-----------------------------------------------------------------------------
(* C14 *)

\* raw is not a well-formed mapping of string to integer: a text json.loads
\* rejects, a value that is no object, or an object with a member that is no
\* integer.
Malformed(raw) ==
    raw.kind # "object" \/ \E k \in DOMAIN raw.members : raw.members[k].t # "int"

\* C14 as stated: every map loader reads malformed stored data as the empty
\* mapping, so that the resolver uses the scalar.
C14_AsStated ==
    /\ Malformed(conf.typingRatesJson) =>
         /\ loadTypingRatesMap(conf) = << >>
         /\ getTypingRateForSynth(conf, synthName) = conf.typingRate
    /\ Malformed(conf.spellingRatesJson) =>
         /\ loadSpellingRatesMap(conf) = << >>
         /\ getSpellingRateForSynth(conf, synthName) = conf.spellingRate
    /\ Malformed(conf.oneCoreBoostJson) =>
         /\ loadBoostMap(conf) = << >>
         /\ getBoostForSynth(conf, synthName) = conf.oneCoreBoost
    /\ Malformed(conf.oneCoreSpellBoostJson) =>
         /\ loadSpellBoostMap(conf) = << >>
         /\ getSpellBoostForSynth(conf, synthName) = conf.oneCoreSpellBoost
    /\ (lastSpeak = "typing" /\ Malformed(conf.typingRatesJson)) =>
         OffsetOf(spoken)
           = computeTypingRateOffset(
               [conf EXCEPT !.typingRatesJson = InvalidJson],
               synthName, defaultRate)

-----------------------------------------------------------------------------
(* C15 *)

\* The value the map m gives for name, the scalar when it gives none.
LookupIn(m, name, scalar) ==
    IF name # NoSynth /\ name \in DOMAIN m THEN m[name] ELSE scalar

RoundTripRates == {0, 37, 100}

\* Writing the rate r for the name n into the loaded map, saving the map and
\* loading it again gives the map that was saved, and the resolver gives the
\* offset that map gives.
C15_MapRoundTrip ==
    \A n \in SynthNames, r \in RoundTripRates :
      /\ LET m == Assign(loadTypingRatesMap(conf), n, r)
             saved == saveTypingRatesMap(conf, m)
         IN /\ loadTypingRatesMap(saved) = m
            /\ computeTypingRateOffset(saved, n, defaultRate)
                 = computeTypingRateOffset(
                     [conf EXCEPT !.typingRatesJson = InvalidJson,
                                  !.typingRate = LookupIn(m, n, conf.typingRate)],
                     n, defaultRate)
      /\ LET m == Assign(loadSpellingRatesMap(conf), n, r)
             saved == saveSpellingRatesMap(conf, m)
         IN /\ loadSpellingRatesMap(saved) = m
            /\ computeSpellingRateOffset(saved, n, defaultRate)
                 = computeSpellingRateOffset(
                     [conf EXCEPT !.spellingRatesJson = InvalidJson,
                                  !.spellingRate = LookupIn(m, n, conf.spellingRate)],
                     n, defaultRate)

\* A run of onSave for a named synthesizer leaves stored maps that load as the
\* maps loaded before with the slider rates written for that synthesizer, and
\* the resolver then works from the slider rates.
C15_SavedStep ==
    (saves' # saves /\ synthName # NoSynth) =>
      /\ loadTypingRatesMap(conf')
           = Assign(loadTypingRatesMap(conf), synthName, panel.rate)
      /\ loadSpellingRatesMap(conf')
           = Assign(loadSpellingRatesMap(conf), synthName, panel.spellRate)
      /\ computeTypingRateOffset(conf', synthName, defaultRate)
           = computeTypingRateOffset(
               [conf' EXCEPT !.typingRatesJson = InvalidJson,
                             !.typingRate = panel.rate],
               synthName, defaultRate)
      /\ computeSpellingRateOffset(conf', synthName, defaultRate)
           = computeSpellingRateOffset(
               [conf' EXCEPT !.spellingRatesJson = InvalidJson,
                             !.spellingRate = panel.spellRate],
               synthName, defaultRate)

\* C15: for every synthesizer name and every rate in [0,100], writing the
\* per-synth rate into the map, saving the map, loading it again and
\* resolving gives the offset the map gave before it was saved: save followed
\* by load returns the same mapping, for the typing and the spelling rates.
C15_RoundTrip == [](C15_MapRoundTrip) /\ [][C15_SavedStep]_vars

\* After a save for "espeak" with the rate slider at 40, the stored map loads
\* with that rate beside the entry of another synthesizer, and a typing
\* request went out 10 below the default rate 50.
C15_Witness ==
    /\ saves = 1 /\ synthName = Espeak /\ panel.rate = 40 /\ defaultRate = 50
    /\ loadTypingRatesMap(conf) = (Espeak :> 40) @@ (OneCore :> 70)
    /\ lastSpeak = "typing"
    /\ spoken = << RateCommand(-10), SpeechItem, RateCommand(0) >>

-----------------------------------------------------------------------------
(* C16 *)

\* The positions of the rate changes in the sequence sp.
RateChanges(sp) == {i \in 1..Len(sp) : sp[i].cmd = "RateCommand"}

\* The offset from the default rate in effect once sp was spoken, the rate
\* having been the default before.
OffsetAfter(sp) ==
    IF RateChanges(sp) = {} THEN 0
    ELSE sp[CHOOSE i \in RateChanges(sp) : \A j \in RateChanges(sp) : j <= i].offset

\* The sequence a dispatch gives to speech.speak for the offset o.
Dispatched(o) ==
    IF o = 0 THEN << SpeechItem >>
    ELSE << [cmd |-> "RateCommand", offset |-> o], SpeechItem,
            [cmd |-> "RateCommand", offset |-> 0] >>

\* C16: a dispatch whose offset is 0 forwards the sequence as it is; any
\* other forwards a rate change by the offset, the sequence, and a rate
\* change back to the default: a sequence that opens with a rate change ends
\* with the reset and holds no other, so the rate in effect afterwards is the
\* default.
C16_DispatchScoping ==
    /\ lastSpeak = "typing" =>
         spoken = Dispatched(computeTypingRateOffset(conf, synthName, defaultRate))
    /\ lastSpeak = "spelling" =>
         spoken = Dispatched(computeSpellingRateOffset(conf, synthName, defaultRate))
    /\ (Len(spoken) > 0 /\ spoken[1].cmd = "RateCommand") =>
         /\ spoken[1].offset # 0
         /\ spoken[Len(spoken)] = [cmd |-> "RateCommand", offset |-> 0]
         /\ RateChanges(spoken) = {1, Len(spoken)}
    /\ OffsetAfter(spoken) = 0

\* A spelling request went out 50 below the default rate and ended with the
\* reset.
C16_Witness ==
    /\ lastSpeak = "spelling" /\ Len(spoken) = 3
    /\ spoken[1] = RateCommand(-50) /\ spoken[2] = SpeechItem
    /\ spoken[3] = RateCommand(0)

-----------------------------------------------------------------------------
(* C17 *)

\* The saved originals of the handler the last step called.
SavedOriginals ==
    IF lastCh # NoCall
    THEN {orig.typedPkg, orig.typedMod} \ {None}
    ELSE {orig.spellPkg, orig.spellMod} \ {None}

\* C17: no exception leaves the replacement typed-character handler or the
\* replacement spelling handler; an exception raised inside one is logged,
\* then the saved original, if one is saved, is called once with the
\* arguments the handler got and nothing is done otherwise, and an exception
\* of that call is swallowed too.  A call that raises nothing logs no error
\* and calls no original.
C17_NeverRaises ==
    /\ handled.escaped = FALSE
    /\ handled.raisedAt = "none" => handled = NoHandled
    /\ handled.raisedAt # "none" =>
         /\ Len(handled.errorLog) = 1
         /\ lastCh # NoCall => handled.arg = << lastCh >>
         /\ IF SavedOriginals = {}
            THEN handled.fallback = << >>
            ELSE /\ Len(handled.fallback) = 1
                 /\ handled.fallback[1].orig \in SavedOriginals
                 /\ handled.fallback[1].arg = handled.arg
                 /\ handled.fallback[1].fn = handled.errorLog[1]

\* Speaking a typed word raised: the buffer was cleared, the error logged and
\* the host's saved speakTypedCharacters called with the space.
C17_Witness ==
    /\ handled.raisedAt = "speakWord" /\ lastCh = 32
    /\ curWordChars = << >> /\ out = << >>
    /\ orig.typedMod = Host /\ orig.typedPkg = None
    /\ handled.fallback
         = << [fn |-> "speakTypedCharacters", orig |-> Host, arg |-> << 32 >>] >>

-----------------------------------------------------------------------------
(* C18 *)

\* The step is a handler call for a boundary character that found the buffer
\* non-empty.
BoundaryOnWord ==
    /\ lastCh' # NoCall /\ lastCh' # BACKSPACE /\ lastCh' # DELETE
    /\ ~IsWordChar(lastCh')
    /\ Len(curWordChars) > 0

\* The conditions under which a typed word is spoken at the typing rate.
RateWordGate ==
    /\ ~typingIsProtected /\ applyToWords
    /\ speakTypedWords # OFF
    /\ (speakTypedWords = ALWAYS
         \/ (speakTypedWords = EDIT_CONTROLS /\ focusEditable))

\* C18: a boundary keystroke that finds the buffer non-empty emits a word
\* request at the typing rate, carrying the buffer, if and only if typing is
\* not protected, applyToWords is on and typed-word echo is ALWAYS, or
\* EDIT_CONTROLS on an editable focus; emitted or not, the buffer is cleared.
C18_WordGating ==
    [][BoundaryOnWord =>
         /\ CallsIn(out', {"_speakTextWithTypingRate"})
              = IF RateWordGate
                THEN << [call |-> "_speakTextWithTypingRate",
                         text |-> curWordChars] >>
                ELSE << >>
         /\ curWordChars' = << >>]_vars

\* A word typed while the focus was not editable went unspoken under
\* EDIT_CONTROLS, and the buffer was cleared.
C18_Witness ==
    /\ Closed /\ Len(Typed) >= 2 /\ PlainLetters(Typed)
    /\ ~typingIsProtected /\ applyToWords
    /\ speakTypedWords = EDIT_CONTROLS /\ ~focusEditable
    /\ CallsIn(out, WordCalls) = << >>
    /\ curWordChars = << >>

-----------------------------------------------------------------------------
(* C19 *)

\* The conditions under which the character ch is echoed.
CharGate(ch) ==
    /\ speakTypedCharacters # OFF
    /\ ch >= 32
    /\ (speakTypedCharacters = ALWAYS
         \/ (speakTypedCharacters = EDIT_CONTROLS /\ focusEditable))

\* C19: for every keystroke but the delete character, whatever its class and
\* the buffer are, a character request is emitted if and only if
\* typed-character echo is not OFF, the character is not below the space, and
\* the echo is ALWAYS, or EDIT_CONTROLS on an editable focus; it carries the
\* mask when typing is protected and the typed character otherwise, and it is
\* the last request of the keystroke.  Backspace and Enter give none.
C19_CharGating ==
    [][(lastCh' # NoCall /\ lastCh' # DELETE) =>
         /\ CallsIn(out', {CharCall})
              = IF CharGate(lastCh')
                THEN << [call |-> CharCall,
                         text |-> << IF typingIsProtected
                                     THEN PROTECTED_CHAR ELSE lastCh' >>] >>
                ELSE << >>
         /\ CharGate(lastCh') => out'[Len(out')].call = CharCall
         /\ lastCh' \in {BACKSPACE, 13} => CallsIn(out', {CharCall}) = << >>]_vars

\* Enter closed a word with typed characters echoed ALWAYS: the word was
\* spoken and no character request was made.
C19_Witness ==
    /\ lastCh = 13 /\ Closed /\ Len(Typed) >= 1
    /\ speakTypedCharacters = ALWAYS
    /\ Len(out) = 1 /\ out[1].call \in WordCalls

-----------------------------------------------------------------------------
(* C20 *)

\* C20: a keystroke makes at most two requests, at most one for a word and
\* at most one for a character, the word first; a word-constituent or
\* backspace keystroke makes none for a word; a boundary character that
\* finds the buffer empty makes none for a word and leaves the buffer empty.
C20_RequestCount ==
    [][lastCh' # NoCall =>
         /\ Len(out') <= 2
         /\ Len(CallsIn(out', WordCalls)) <= 1
         /\ Len(CallsIn(out', {CharCall})) <= 1
         /\ Len(out') = 2 => (out'[1].call \in WordCalls /\ out'[2].call = CharCall)
         /\ (IsWordChar(lastCh') \/ lastCh' = BACKSPACE)
               => CallsIn(out', WordCalls) = << >>
         /\ (~IsWordChar(lastCh') /\ lastCh' # BACKSPACE /\ curWordChars = << >>)
               => (CallsIn(out', WordCalls) = << >> /\ curWordChars' = << >>)]_vars

\* A space typed on an empty buffer, with typed words echoed at the typing
\* rate, gave its character request alone.
C20_Witness ==
    /\ lastCh = 32 /\ Closed /\ Len(Typed) = 0
    /\ ~typingIsProtected /\ applyToWords /\ speakTypedWords = ALWAYS
    /\ out = << [call |-> CharCall, text |-> << 32 >>] >>
    /\ curWordChars = << >>

-----------------------------------------------------------------------------
(* C21 *)

\* Rate and boost settings of one purpose to change the stored ones to: each
\* stored rate text, each scalar rate, and each pair of boost text and scalar.
OtherSettings ==
    (RateTexts \X {-1} \X {InvalidJson} \X {0})
      \cup ({InvalidJson} \X RateScalars \X {InvalidJson} \X {0})
      \cup ({InvalidJson} \X {-1} \X BoostTexts \X BoostScalars)

WithTypingSettings(c, t) ==
    [c EXCEPT !.typingRatesJson = t[1], !.typingRate = t[2],
              !.oneCoreBoostJson = t[3], !.oneCoreBoost = t[4]]

WithSpellingSettings(c, t) ==
    [c EXCEPT !.spellingRatesJson = t[1], !.spellingRate = t[2],
              !.oneCoreSpellBoostJson = t[3], !.oneCoreSpellBoost = t[4]]

\* C21: the offset of a typing request is the same whatever the spelling
\* rates and boosts are changed to, and the offset of a spelling request is
\* the same whatever the typing rates and boosts are changed to (the enable
\* toggles, the synthesizer and the default rate being what they are).
C21_Independence ==
    /\ lastSpeak = "typing" =>
         \A t \in OtherSettings :
           computeTypingRateOffset(WithSpellingSettings(conf, t),
                                   synthName, defaultRate) = OffsetOf(spoken)
    /\ lastSpeak = "spelling" =>
         \A t \in OtherSettings :
           computeSpellingRateOffset(WithTypingSettings(conf, t),
                                     synthName, defaultRate) = OffsetOf(spoken)

\* A spelling request went out at the spelling rate 0 while the typing rate
\* stored for the synthesizer is 70 with a boost of 25.
C21_Witness ==
    /\ lastSpeak = "spelling" /\ BothTogglesOn
    /\ synthName = OneCore /\ defaultRate = 50
    /\ Configured(conf.typingRatesJson, conf.typingRate) = 70
    /\ Configured(conf.oneCoreBoostJson, conf.oneCoreBoost) = 25
    /\ Configured(conf.spellingRatesJson, conf.spellingRate) = 0
    /\ Configured(conf.oneCoreSpellBoostJson, conf.oneCoreSpellBoost) = 0
    /\ spoken = << RateCommand(-50), SpeechItem, RateCommand(0) >>

-----------------------------------------------------------------------------
(* C22 *)

\* The conditions under which the host speaks a typed word.
HostWordGate ==
    /\ speakTypedWords # OFF /\ ~typingIsProtected
    /\ (speakTypedWords = ALWAYS
         \/ (speakTypedWords = EDIT_CONTROLS /\ focusEditable))

\* C22: with applyToWords off no word is spoken at the typing rate: every
\* request the handler makes on the typing-rate path is for a character, and
\* a word that ends is given to the host's speakText, without a rate change,
\* exactly when typed-word echo is not OFF, typing is not protected, and the
\* echo is ALWAYS, or EDIT_CONTROLS on an editable focus.
C22_NoRateOnWords ==
    [][(lastCh' # NoCall /\ ~applyToWords) =>
         /\ \A j \in 1..Len(out') :
              out'[j].call # "speakText"
                => (out'[j].call = CharCall /\ Len(out'[j].text) = 1)
         /\ BoundaryOnWord =>
              CallsIn(out', WordCalls)
                = IF HostWordGate
                  THEN << [call |-> "speakText", text |-> curWordChars] >>
                  ELSE << >>
         /\ ~BoundaryOnWord => CallsIn(out', WordCalls) = << >>]_vars

\* With applyToWords off, a space ended a word while typed words are echoed
\* in edit controls and the focus is editable: the word went to speakText,
\* the space to the typing-rate path.
C22_Witness ==
    /\ ~applyToWords /\ ~typingIsProtected
    /\ speakTypedWords = EDIT_CONTROLS /\ focusEditable
    /\ lastCh = 32 /\ Closed /\ Len(Typed) >= 1
    /\ Len(out) = 2
    /\ out[1].call = "speakText" /\ out[1].text = CharsOf(Surviving(Typed))
    /\ out[2] = [call |-> CharCall, text |-> << 32 >>]

-----------------------------------------------------------------------------
(* C23 *)

NoOriginals ==
    [typedMod |-> None, typedPkg |-> None, spellMod |-> None, spellPkg |-> None]

\* A name bound to the replacement where the namespace has the name.
Replaced(bound) == IF bound = Missing THEN Missing ELSE Patched

\* A name bound to the host's handler again where the replacement was bound.
Unreplaced(bound) == IF bound = Patched THEN Host ELSE bound

\* C23: a saved original is never a replacement handler.  _patchSpeech with
\* something saved changes neither the namespaces nor the saved originals;
\* with nothing saved (at start, or after _unpatchSpeech) it binds every name
\* the namespaces have to the replacement and saves what was bound.
\* _unpatchSpeech binds the host's handlers again in both namespaces and
\* clears the saved originals; with nothing saved it changes nothing.
C23_InstallRemove ==
    /\ [](/\ Patched \notin {orig.typedMod, orig.typedPkg,
                              orig.spellMod, orig.spellPkg}
          /\ orig = NoOriginals => ns \in NsSamples
          /\ orig # NoOriginals => ns.modTyped = Patched)
    /\ [][/\ (patchSpeech /\ orig # NoOriginals) => UNCHANGED <<ns, orig>>
          /\ (patchSpeech /\ orig = NoOriginals) =>
               /\ ns' = [modTyped |-> Patched,
                         pkgTyped |-> Replaced(ns.pkgTyped),
                         modSpelling |-> Replaced(ns.modSpelling),
                         pkgSpelling |-> Replaced(ns.pkgSpelling)]
               /\ orig' = [typedMod |-> Host,
                           typedPkg |-> GetAttr(ns.pkgTyped),
                           spellMod |-> GetAttr(ns.modSpelling),
                           spellPkg |-> GetAttr(ns.pkgSpelling)]
          /\ (unpatchSpeech /\ orig # NoOriginals) =>
               /\ ns' = [modTyped |-> Host,
                         pkgTyped |-> Unreplaced(ns.pkgTyped),
                         modSpelling |-> Unreplaced(ns.modSpelling),
                         pkgSpelling |-> Unreplaced(ns.pkgSpelling)]
               /\ ns' \in NsSamples
               /\ orig' = NoOriginals
          /\ (unpatchSpeech /\ orig = NoOriginals) => UNCHANGED <<ns, orig>>
      ]_vars

\* The replacements are installed in a speech package that has no
\* speakTypedCharacters and no speakSpelling: the module's names are bound
\* to the replacements, the host's handlers are saved, and nothing is saved
\* for the package.
C23_Witness ==
    /\ ns = [modTyped |-> Patched, pkgTyped |-> Missing,
             modSpelling |-> Patched, pkgSpelling |-> Missing]
    /\ orig = [typedMod |-> Host, typedPkg |-> None,
               spellMod |-> Host, spellPkg |-> None]
    /\ handled = NoHandled /\ lastCh = NoCall

-----------------------------------------------------------------------------
(* C24 *)

\* The keystrokes of ks after the last moment the keystrokes before left
\* nothing in the buffer.
RECURSIVE SinceEmpty(_)
SinceEmpty(ks) ==
    IF Len(ks) = 0 \/ Surviving(ks) = << >> THEN << >>
    ELSE Append(SinceEmpty(SubSeq(ks, 1, Len(ks) - 1)), ks[Len(ks)])

\* The number of word-constituent keystrokes in ks.
NumWordKeys(ks) == Cardinality({i \in 1..Len(ks) : IsWordChar(ks[i].ch)})

\* C24 (the keystrokes counted are those since the last boundary character
\* emptied the buffer): every element of the word buffer is a letter, mark or number that
\* was typed unprotected, or the mask put for a letter, mark or number typed
\* under protection; no element is a boundary, backspace, delete or other
\* control character; and the buffer is no longer than the number of
\* word-constituent keystrokes since it was last empty.
C24_BufferContent ==
    LET ks == Surviving(KeysBefore)
    IN /\ Len(curWordChars) = Len(ks)
       /\ \A i \in 1..Len(curWordChars) :
            /\ IsWordChar(ks[i].ch)
            /\ \/ ~ks[i].prot /\ curWordChars[i] = ks[i].ch
               \/ ks[i].prot /\ curWordChars[i] = PROTECTED_CHAR
            /\ curWordChars[i] \notin BoundaryChars \cup {BACKSPACE, DELETE}
            /\ MajorCategory(curWordChars[i]) # "C"
       /\ Len(curWordChars) <= NumWordKeys(SinceEmpty(KeysBefore))

\* A letter typed under protection, a letter typed without, then a
\* backspace: the buffer holds the mask alone, one element for two
\* word-constituent keystrokes.
C24_Witness ==
    /\ Len(keys) = 3 /\ ~Closed
    /\ IsWordChar(keys[1].ch) /\ keys[1].prot
    /\ IsWordChar(keys[2].ch) /\ ~keys[2].prot
    /\ keys[3].ch = BACKSPACE
    /\ curWordChars = << PROTECTED_CHAR >>
    /\ NumWordKeys(SinceEmpty(Typed)) = 2

-----------------------------------------------------------------------------
(* C25 *)

\* The stored text is a JSON object whose members are all integers.
WellFormed(raw) ==
    /\ raw.kind = "object"
    /\ \A k \in DOMAIN raw.members : raw.members[k].t = "int"

WellFormedMaps(c) ==
    /\ WellFormed(c.typingRatesJson) /\ WellFormed(c.oneCoreBoostJson)
    /\ WellFormed(c.spellingRatesJson) /\ WellFormed(c.oneCoreSpellBoostJson)

\* The entries of the stored text raw: the synthesizer names and their values.
Entries(raw) == [k \in DOMAIN raw.members |-> raw.members[k].v]

\* The text after holds the entries of the text before, except that the
\* entry of name is v.
OnlyEntrySet(before, after, name, v) ==
    /\ WellFormed(after)
    /\ DOMAIN after.members = DOMAIN before.members \cup {name}
    /\ Entries(after)[name] = v
    /\ \A k \in DOMAIN before.members \ {name} :
         Entries(after)[k] = Entries(before)[k]

\* A slider value brought into 0..100.
IntoRange(x) == IF x < 0 THEN 0 ELSE IF x > 100 THEN 100 ELSE x

\* C25: when the four stored maps are well formed and the active synthesizer
\* name is not empty, onSave sets the name's typing-rate and spelling-rate
\* entries to the slider values, and its two boost entries too if the name
\* holds "onecore" (the boost maps are left as they are otherwise); every
\* other entry of the four maps and the four scalars stay as they were.
\* With an empty name onSave writes the scalar typing and spelling rates and
\* leaves the four maps and the two scalar boosts as they were.
C25_SaveTouchesActiveOnly ==
    [][(saves' # saves /\ WellFormedMaps(conf)) =>
         IF synthName # NoSynth
         THEN /\ OnlyEntrySet(conf.typingRatesJson, conf'.typingRatesJson,
                              synthName, IntoRange(panel.rate))
              /\ OnlyEntrySet(conf.spellingRatesJson, conf'.spellingRatesJson,
                              synthName, IntoRange(panel.spellRate))
              /\ IF HasMarker(synthName)
                 THEN /\ OnlyEntrySet(conf.oneCoreBoostJson, conf'.oneCoreBoostJson,
                                      synthName, IntoRange(panel.boost))
                      /\ OnlyEntrySet(conf.oneCoreSpellBoostJson,
                                      conf'.oneCoreSpellBoostJson,
                                      synthName, IntoRange(panel.spellBoost))
                 ELSE /\ conf'.oneCoreBoostJson = conf.oneCoreBoostJson
                      /\ conf'.oneCoreSpellBoostJson = conf.oneCoreSpellBoostJson
              /\ conf'.typingRate = conf.typingRate
              /\ conf'.spellingRate = conf.spellingRate
              /\ conf'.oneCoreBoost = conf.oneCoreBoost
              /\ conf'.oneCoreSpellBoost = conf.oneCoreSpellBoost
         ELSE /\ conf'.typingRatesJson = conf.typingRatesJson
              /\ conf'.spellingRatesJson = conf.spellingRatesJson
              /\ conf'.oneCoreBoostJson = conf.oneCoreBoostJson
              /\ conf'.oneCoreSpellBoostJson = conf.oneCoreSpellBoostJson
              /\ conf'.typingRate = IntoRange(panel.rate)
              /\ conf'.spellingRate = IntoRange(panel.spellRate)
              /\ conf'.oneCoreBoost = conf.oneCoreBoost
              /\ conf'.oneCoreSpellBoost = conf.oneCoreSpellBoost]_vars

\* With OneCore active the settings were saved once over well-formed maps:
\* OneCore's entries hold the slider values, eSpeak's typing rate, the other
\* synthesizers' spelling rates and spelling boost and the scalars are as
\* they were stored.
C25_Witness ==
    /\ saves = 1 /\ synthName = OneCore
    /\ panel.rate = 40 /\ panel.boost = 0
    /\ panel.spellRate = 100 /\ panel.spellBoost = 10
    /\ conf.typingRatesJson = JsonObject((Espeak :> 30) @@ (OneCore :> 40))
    /\ conf.oneCoreBoostJson = JsonObject(OneCore :> 0)
    /\ conf.spellingRatesJson
         = JsonObject((NoSynth :> 80) @@ (UpperOneCore :> 20) @@ (OneCore :> 100))
    /\ conf.oneCoreSpellBoostJson
         = JsonObject((UpperOneCore :> 5) @@ (OneCore :> 10))
    /\ conf.typingRate = 60 /\ conf.oneCoreBoost = 15

-----------------------------------------------------------------------------
(* C26 *)

\* The sections c and e differ in the typing-rate map and the rateOffset key
\* at most.
SameButTypingMap(c, e) ==
    [c EXCEPT !.typingRatesJson = InvalidJson, !.rateOffset = NoOffset]
      = [e EXCEPT !.typingRatesJson = InvalidJson, !.rateOffset = NoOffset]

\* The rate the migration stores for the active synthesizer when the typing
\* rates read from the section hold no entry for it: none (-1) when there is
\* neither a rateOffset key nor a global typingRate of 0 or more.
MigratedRate ==
    IF conf.rateOffset # NoOffset
    THEN IntoRange(defaultRate
                     + (IF conf.rateOffset.t \in {"int", "numeral"}
                        THEN conf.rateOffset.v ELSE 0))
    ELSE IF conf.typingRate >= 0 THEN IntoRange(conf.typingRate)
    ELSE -1

\* C26: _migrateOldConfigIfNeeded changes nothing when the typing rates read
\* from the section hold an entry for the active synthesizer, and nothing
\* when the synthesizer name is empty; it changes no other synthesizer's
\* typing rate and nothing outside the typing-rate map and the rateOffset
\* key; the entry it writes is defaultRate + rateOffset where there is a
\* rateOffset key and the global typingRate otherwise, brought into 0..100;
\* and run again on what it left it changes nothing.
C26_MigrationIdempotent ==
    [][migrateOldConfigIfNeeded =>
         LET m == loadTypingRatesMap(conf)
             after == loadTypingRatesMap(conf')
         IN /\ synthName \in DOMAIN m => conf' = conf
            /\ synthName = NoSynth => conf' = conf
            /\ SameButTypingMap(conf, conf')
            /\ DOMAIN m \subseteq DOMAIN after
            /\ DOMAIN after \subseteq DOMAIN m \cup {synthName}
            /\ \A k \in DOMAIN m : after[k] = m[k]
            /\ (synthName # NoSynth /\ synthName \notin DOMAIN m) =>
                 IF MigratedRate = -1
                 THEN conf' = conf
                 ELSE /\ synthName \in DOMAIN after
                      /\ after[synthName] = MigratedRate
                      /\ after[synthName] \in 0..100
            /\ \A again \in BOOLEAN :
                 migrateConf(conf', synthName, defaultRate, again) = conf'
    ]_vars

\* With eSpeak active, a rateOffset that takes the default rate past 100 and
\* a global typingRate of 60, the migration wrote 100 for eSpeak next to the
\* rates of OneCore and xONECORE, removed the rateOffset key and left the
\* global typingRate where it was.
C26_Witness ==
    /\ synthName = Espeak /\ defaultRate = 50 /\ saves = 0
    /\ conf.rateOffset = NoOffset /\ conf.typingRate = 60
    /\ conf.typingRatesJson
         = JsonObject((Espeak :> 100) @@ (OneCore :> 70) @@ (UpperOneCore :> 45))
    /\ conf.oneCoreBoostJson = JsonArray

=============================================================================
